---------------------------- MODULE Spec2Model ----------------------------
(***************************************************************************)
(* A model of glox, a tree-walking interpreter of Lox written in Go: the   *)
(* environment chain (environment.go), the scope tracker (scopes.go), the  *)
(* static resolver (resolver.go), the evaluator (interpreter.go), the      *)
(* callables (callable.go), the scanner (scanner.go) and the parser's      *)
(* depth counters and for-loop rewriting (parser.go).                      *)
(*                                                                         *)
(* Representation.                                                         *)
(*  - A syntax-tree node is a record with a kind field k.  The identity of *)
(*    a node (a Go pointer) is its path from the root of the program: the  *)
(*    sequence of child indexes leading to it.                             *)
(*  - A run-time value is a record with a type tag t: nil, bool, float64   *)
(*    (restricted to integers), string, or a callable.                     *)
(*  - The Go heap of *Environment is the sequence envs; a node's identity  *)
(*    is its index, and 0 is the nil Enclosing of the root.                *)
(*  - A Go error value is a record with a kind; kind "none" is nil.        *)
(***************************************************************************)
EXTENDS Integers, Sequences, FiniteSets, TLC

VARIABLES
    program,     \* the text handed to Parse, as the tree the parser builds of it
    pc,          \* position of the driver: source, syntaxError, parsed, running,
                 \* rejected, failed, done
    locals,      \* the hop-count table: node identity -> distance
    scopes,      \* Resolver.Scopes as left by the last resolution (the stack of
                 \* ScopeSpec)
    resolveErr,  \* the error returned by Resolver.Resolve
    envs,        \* the heap of Environment nodes
    env,         \* Interpreter.env, the current node
    next,        \* index of the next top-level statement of Interpret's loop
    output,      \* the lines written by fmt.Println
    log,         \* history: the statements executed, the calls made, the entries
                 \* and returns of ExecuteBlock, the uses of a hop count
    err,         \* the error returned by Interpret
    last,        \* result of the last Environment operation (EnvSpec) and of
                 \* ResolveLocal (ScopeSpec)
    scanner      \* the Scanner of ScanTokens (ScanSpec, ScanLiveSpec)

vars ==
    <<program, pc, locals, scopes, resolveErr, envs, env, next, output, log, err, last, scanner>>

-----------------------------------------------------------------------------
(* Bounds of the model. *)

\* inc() is called 1..MaxCalls times in the counter programs
MaxCalls == 3
\* budget of loop iterations and calls of one run
MaxSteps == 12
\* top-level statements after the declaration in the statement-order programs
MaxStmts == 3
\* iterations of the counting loops
MaxLoop == 3
\* scopes of the stack in ScopeSpec
MaxScopes == 3
\* nodes of the heap in EnvSpec
MaxEnvs == 3

-----------------------------------------------------------------------------
(* Values: the dynamic type `any` of the evaluator. *)

NilV == [t |-> "nil"]
BoolV(b) == [t |-> "bool", v |-> b]
NumV(n) == [t |-> "num", v |-> n]
StrV(s) == [t |-> "str", v |-> s]
FunV(closure, path) == [t |-> "function", closure |-> closure, path |-> path]
LambdaV(closure, path) == [t |-> "lambda", closure |-> closure, path |-> path]

isBool(value) == value.t = "bool"
isFloat(value) == value.t = "num"
isString(value) == value.t = "str"
isCallable(value) == value.t \in {"function", "lambda"}

\* Faulty variant of isTruthy: zero and the empty string are falsy too
isTruthy_ZeroFalsy(value) ==
    IF value.t = "nil" THEN FALSE
    ELSE IF isBool(value) THEN value.v
    ELSE IF isFloat(value) THEN value.v /= 0
    ELSE IF isString(value) THEN value.v /= ""
    ELSE TRUE
isTruthy(value) ==
    IF value.t = "nil" THEN FALSE
    ELSE IF isBool(value) THEN value.v
    ELSE TRUE

isEqual(a, b) ==
    IF a.t = "nil" /\ b.t = "nil" THEN TRUE
    ELSE IF a.t = "nil" \/ b.t = "nil" THEN FALSE
    ELSE a.t = b.t /\ a = b

(* Errors.  The Go code returns fmt.Errorf values; the kind names the      *)
(* failure condition.  ReturnValue is the error type Function.Call catches.*)
NoErr == [kind |-> "none", value |-> NilV]
Error(kind) == [kind |-> kind, value |-> NilV]
ReturnValue(value) == [kind |-> "return", value |-> value]

-----------------------------------------------------------------------------
(* Environment chain: environment.go. *)

\* NewEnvironment(enclosing): a node with an empty table, appended to the heap
NewEnvironment(h, enclosing) == Append(h, [values |-> <<>>, enclosing |-> enclosing])

\* e.Values[name] = value
EnvDefine(h, e, name, value) == [h EXCEPT ![e].values = (name :> value) @@ @]

\* Faulty variant of Assign: a name bound nowhere is defined in the root
RECURSIVE EnvAssign_Implicit(_, _, _, _)
EnvAssign_Implicit(h, e, name, value) ==
    IF name \in DOMAIN h[e].values
    THEN [envs |-> [h EXCEPT ![e].values[name] = value], err |-> NoErr]
    ELSE IF h[e].enclosing /= 0
    THEN EnvAssign_Implicit(h, h[e].enclosing, name, value)
    ELSE [envs |-> EnvDefine(h, e, name, value), err |-> NoErr]

\* Assign: the nearest node from e upward whose table has the name is written;
\* the result is the heap and the error
RECURSIVE EnvAssign(_, _, _, _)
EnvAssign(h, e, name, value) ==
    IF name \in DOMAIN h[e].values
    THEN [envs |-> [h EXCEPT ![e].values[name] = value], err |-> NoErr]
    ELSE IF h[e].enclosing /= 0
    THEN EnvAssign(h, h[e].enclosing, name, value)
    ELSE [envs |-> h, err |-> Error("UndefinedVariable")]

\* Get: the value of the nearest node from e upward whose table has the name
RECURSIVE EnvGet(_, _, _)
EnvGet(h, e, name) ==
    IF name \in DOMAIN h[e].values
    THEN [v |-> h[e].values[name], err |-> NoErr]
    ELSE IF h[e].enclosing /= 0
    THEN EnvGet(h, h[e].enclosing, name)
    ELSE [v |-> NilV, err |-> Error("UndefinedVariable")]

\* Ancestor: `distance` steps along Enclosing; dereferencing a nil Enclosing
\* panics, which is the result 0
RECURSIVE Ancestor(_, _, _)
Ancestor(h, e, distance) ==
    IF distance = 0 THEN e
    ELSE IF h[e].enclosing = 0 THEN 0
    ELSE Ancestor(h, h[e].enclosing, distance - 1)

\* Faulty variant of AssignAt: the name is bound in the node itself in place
\* of the node `distance` links up
EnvAssignAt_Current(h, e, distance, name, value) ==
    [envs |-> EnvDefine(h, e, name, value), err |-> NoErr]

\* AssignAt: e.Ancestor(distance).Assign(name, value)
EnvAssignAt(h, e, distance, name, value) ==
    LET a == Ancestor(h, e, distance)
    IN  IF a = 0 THEN [envs |-> h, err |-> Error("panic")]
        ELSE EnvAssign(h, a, name, value)

\* GetAt: e.Ancestor(distance).Get(Token{Lexeme: name})
EnvGetAt(h, e, distance, name) ==
    LET a == Ancestor(h, e, distance)
    IN  IF a = 0 THEN [v |-> NilV, err |-> Error("panic")]
        ELSE EnvGet(h, a, name)

\* number of Enclosing links from e to the root
RECURSIVE Depth(_, _)
Depth(h, e) == IF h[e].enclosing = 0 THEN 0 ELSE 1 + Depth(h, h[e].enclosing)

-----------------------------------------------------------------------------
(* Syntax tree: the node types of the parser's output.  An absent optional *)
(* child (a nil Expr or Stmt) is NoNode.                                   *)

NoNode == [k |-> "None"]

LiteralExpr(value) == [k |-> "Literal", value |-> value]
VariableExpr(name) == [k |-> "Variable", name |-> name]
AssignExpr(name, value) == [k |-> "Assign", name |-> name, value |-> value]
UnaryExpr(op, right) == [k |-> "Unary", op |-> op, right |-> right]
BinaryExpr(left, op, right) == [k |-> "Binary", left |-> left, op |-> op, right |-> right]
LogicalExpr(left, op, right) == [k |-> "Logical", left |-> left, op |-> op, right |-> right]
GroupingExpr(expression) == [k |-> "Grouping", expression |-> expression]
CallExpr(callee, arguments) == [k |-> "Call", callee |-> callee, arguments |-> arguments]
LambdaExpr(params, body) == [k |-> "Lambda", params |-> params, body |-> body]

ExpressionStmt(expr) == [k |-> "Expression", expr |-> expr]
PrintStmt(expr) == [k |-> "PrintStmt", expr |-> expr]
VarDeclStmt(name, initializer) == [k |-> "VarDecl", name |-> name, initializer |-> initializer]
BlockStmt(statements) == [k |-> "Block", statements |-> statements]
IfStmt(condition, thenBranch, elseBranch) ==
    [k |-> "If", condition |-> condition, thenBranch |-> thenBranch, elseBranch |-> elseBranch]
WhileStmt(condition, body) == [k |-> "While", condition |-> condition, body |-> body]
BreakStmt == [k |-> "Break"]
ContinueStmt == [k |-> "Continue"]
FunctionStmt(name, params, body) == [k |-> "Function", name |-> name, params |-> params, body |-> body]
ReturnStmt(value) == [k |-> "Return", value |-> value]

(* Node identity.  The child of the node at path p reached through its     *)
(* i-th child slot is the node at Child(p, i).  The slots: the i-th        *)
(* statement of a program, block or callable body is slot i; the           *)
(* sub-expression of a statement, unary, grouping or assignment is slot 1; *)
(* left/right and condition/body are slots 1/2 (else-branch 3); the callee *)
(* of a call is slot 1 and its i-th argument slot 1 + i.                   *)
Child(path, i) == Append(path, i)

\* the statement list a path step i selects from, for a node with a body
RECURSIVE NodeAt(_, _)
NodeAt(node, path) ==
    IF path = <<>> THEN node
    ELSE LET i == Head(path)
             c == CASE node.k \in {"Block"} -> node.statements[i]
                    [] node.k \in {"Function", "Lambda"} -> node.body[i]
                    [] node.k \in {"Expression", "PrintStmt"} -> node.expr
                    [] node.k = "VarDecl" -> node.initializer
                    [] node.k \in {"Return", "Assign"} -> node.value
                    [] node.k = "Unary" -> node.right
                    [] node.k = "Grouping" -> node.expression
                    [] node.k \in {"Binary", "Logical"} -> IF i = 1 THEN node.left ELSE node.right
                    [] node.k = "If" -> IF i = 1 THEN node.condition
                                        ELSE IF i = 2 THEN node.thenBranch ELSE node.elseBranch
                    [] node.k = "While" -> IF i = 1 THEN node.condition ELSE node.body
                    [] node.k = "Call" -> IF i = 1 THEN node.callee ELSE node.arguments[i - 1]
         IN  NodeAt(c, Tail(path))

\* the node of program prog with identity path
ProgramNode(prog, path) == NodeAt(BlockStmt(prog), path)

-----------------------------------------------------------------------------
(* Scope tracker: scopes.go.  A Scope maps a name to false (declared) or   *)
(* true (defined); Scopes is a stack whose top is its last element.        *)

NewScope == <<>>
ScopeDeclare(s, name) == (name :> FALSE) @@ s
ScopeDefine(s, name) == (name :> TRUE) @@ s
Declared(s, name) == name \in DOMAIN s
Defined(s, name) == name \in DOMAIN s /\ s[name]

Push(stack, item) == Append(stack, item)
Pop(stack) == SubSeq(stack, 1, Len(stack) - 1)
Peek(stack) == stack[Len(stack)]
Empty(stack) == Len(stack) = 0

-----------------------------------------------------------------------------
(* Resolver: resolver.go.  The resolver state r is the scope stack and the *)
(* hop-count table it fills in the interpreter; every operation yields the *)
(* new state and the error it returns.                                     *)

\* Faulty variant of NewResolver: the stack starts with a scope for the
\* global declarations
NewResolver_GlobalScope == [scopes |-> <<NewScope>>, locals |-> <<>>]

\* NewResolver: an empty stack of scopes
NewResolver == [scopes |-> <<>>, locals |-> <<>>]
ROk(r) == [r |-> r, err |-> NoErr]
RFail(r, kind) == [r |-> r, err |-> Error(kind)]

\* Interpreter.Resolve(expr, depth): the table entry of the node
InterpreterResolve(loc, path, depth) == (path :> depth) @@ loc

BeginScope(r) == [r EXCEPT !.scopes = Push(r.scopes, NewScope)]
EndScope(r) == [r EXCEPT !.scopes = Pop(r.scopes)]

\* Faulty variant of Declare: a name already in the innermost scope is
\* declared again
ResolverDeclare_Unchecked(r, name) ==
    IF Empty(r.scopes) THEN ROk(r)
    ELSE ROk([r EXCEPT !.scopes[Len(r.scopes)] = ScopeDeclare(@, name)])

\* Declare: no effect on an empty stack, an error when the innermost scope
\* already has the name
ResolverDeclare(r, name) ==
    IF Empty(r.scopes) THEN ROk(r)
    ELSE IF Declared(Peek(r.scopes), name) THEN RFail(r, "DuplicateDeclaration")
    ELSE ROk([r EXCEPT !.scopes[Len(r.scopes)] = ScopeDeclare(@, name)])

ResolverDefine(r, name) ==
    IF Empty(r.scopes) THEN r
    ELSE [r EXCEPT !.scopes[Len(r.scopes)] = ScopeDefine(@, name)]

\* Faulty variant of the loop of ResolveLocal: the index of the scope is
\* recorded in place of its distance from the innermost scope
RECURSIVE ResolveLocalFrom_Index(_, _, _, _)
ResolveLocalFrom_Index(r, path, name, i) ==
    IF i = 0 THEN r
    ELSE IF Defined(r.scopes[i], name)
    THEN [r EXCEPT !.locals = InterpreterResolve(@, path, i - 1)]
    ELSE ResolveLocalFrom_Index(r, path, name, i - 1)

\* the loop of ResolveLocal from scope index i down to 1 (Go: i-1 down to 0)
RECURSIVE ResolveLocalFrom(_, _, _, _)
ResolveLocalFrom(r, path, name, i) ==
    IF i = 0 THEN r
    ELSE IF Defined(r.scopes[i], name)
    THEN [r EXCEPT !.locals = InterpreterResolve(@, path, Len(r.scopes) - i)]
    ELSE ResolveLocalFrom(r, path, name, i - 1)

ResolveLocal(r, path, name) == ROk(ResolveLocalFrom(r, path, name, Len(r.scopes)))

RECURSIVE ResolveExpr(_, _, _)
RECURSIVE ResolveExprs(_, _, _, _)
RECURSIVE ResolveStmt(_, _, _)
RECURSIVE Resolve(_, _, _, _)
RECURSIVE ResolveFunction(_, _, _)

(* The visitors bind the result of a sub-resolution to the parameter of a  *)
(* local operator: Then(a) is the code after the call that returned a.     *)

\* Faulty variant of VisitVariableExpr: a read of a declared and not yet
\* defined name is resolved like any other
Resolver_VisitVariableExpr_Unchecked(r, expr, path) == ResolveLocal(r, path, expr.name)

Resolver_VisitVariableExpr(r, expr, path) ==
    IF ~Empty(r.scopes)
       /\ Declared(Peek(r.scopes), expr.name) /\ ~Defined(Peek(r.scopes), expr.name)
    THEN RFail(r, "SelfReferencingInitializer")
    ELSE ResolveLocal(r, path, expr.name)

Resolver_VisitAssignExpr(r, expr, path) ==
    LET Then(a) == IF a.err.kind /= "none" THEN a
                   ELSE ResolveLocal(a.r, path, expr.name)
    IN  Then(ResolveExpr(r, expr.value, Child(path, 1)))

\* VisitBinaryExpr and VisitLogicalExpr
Resolver_VisitBinaryExpr(r, expr, path) ==
    LET Then(a) == IF a.err.kind /= "none" THEN a
                   ELSE ResolveExpr(a.r, expr.right, Child(path, 2))
    IN  Then(ResolveExpr(r, expr.left, Child(path, 1)))

Resolver_VisitCallExpr(r, expr, path) ==
    LET Then(a) == IF a.err.kind /= "none" THEN a
                   ELSE ResolveExprs(a.r, expr.arguments, path, 1)
    IN  Then(ResolveExpr(r, expr.callee, Child(path, 1)))

\* the loop over the arguments of a call, from argument i
ResolveExprs(r, arguments, path, i) ==
    LET Then(a) == IF a.err.kind /= "none" THEN a
                   ELSE ResolveExprs(a.r, arguments, path, i + 1)
    IN  IF i > Len(arguments) THEN ROk(r)
        ELSE Then(ResolveExpr(r, arguments[i], Child(path, 1 + i)))

\* ResolveExpr: expr.Accept(r); Accept on a nil Expr panics
ResolveExpr(r, expr, path) ==
    CASE expr.k = "Literal" -> ROk(r)
      [] expr.k = "Variable" -> Resolver_VisitVariableExpr(r, expr, path)
      [] expr.k = "Assign" -> Resolver_VisitAssignExpr(r, expr, path)
      [] expr.k = "Unary" -> ResolveExpr(r, expr.right, Child(path, 1))
      [] expr.k = "Grouping" -> ResolveExpr(r, expr.expression, Child(path, 1))
      [] expr.k \in {"Binary", "Logical"} -> Resolver_VisitBinaryExpr(r, expr, path)
      [] expr.k = "Call" -> Resolver_VisitCallExpr(r, expr, path)
      [] expr.k = "Lambda" -> ResolveFunction(r, expr, path)
      [] expr.k = "None" -> RFail(r, "panic")

\* the loop over the parameters of ResolveFunction, from parameter i
RECURSIVE DeclareParams(_, _, _)
DeclareParams(r, params, i) ==
    LET Then(d) == IF d.err.kind /= "none" THEN d
                   ELSE DeclareParams(ResolverDefine(d.r, params[i]), params, i + 1)
    IN  IF i > Len(params) THEN ROk(r)
        ELSE Then(ResolverDeclare(r, params[i]))

\* Faulty variant of the deferred EndScope: the scope is ended only when no
\* error is returned
DeferEndScope_OnSuccess(b) ==
    IF b.err.kind /= "none" THEN b
    ELSE IF Empty(b.r.scopes) THEN [r |-> b.r, err |-> Error("IndexOutOfRange")]
    ELSE [r |-> EndScope(b.r), err |-> b.err]

\* the deferred EndScope of VisitBlockStmt and ResolveFunction: it runs on
\* every return and leaves the error as it is; the Peek of Pop panics with
\* an index out of range on an empty stack
DeferEndScope(b) ==
    IF Empty(b.r.scopes) THEN [r |-> b.r, err |-> Error("IndexOutOfRange")]
    ELSE [r |-> EndScope(b.r), err |-> b.err]

\* Faulty variant of ResolveFunction: the body is resolved in a scope of its
\* own inside the scope of the parameters
ResolveFunction_BodyScope(r, fn, path) ==
    LET Then(p) == IF p.err.kind /= "none" THEN p
                   ELSE DeferEndScope(Resolve(BeginScope(p.r), fn.body, path, 1))
    IN  DeferEndScope(Then(DeclareParams(BeginScope(r), fn.params, 1)))

\* ResolveFunction: one scope for the parameters and the body
ResolveFunction(r, fn, path) ==
    LET Then(p) == IF p.err.kind /= "none" THEN p
                   ELSE Resolve(p.r, fn.body, path, 1)
    IN  DeferEndScope(Then(DeclareParams(BeginScope(r), fn.params, 1)))

\* Faulty variant of VisitVarDeclStmt: the name is defined before its
\* initializer is resolved
Resolver_VisitVarDeclStmt_DefineFirst(r, stmt, path) ==
    LET Then(d) == IF d.err.kind /= "none" THEN d
                   ELSE IF stmt.initializer.k /= "None"
                   THEN ResolveExpr(ResolverDefine(d.r, stmt.name), stmt.initializer,
                                    Child(path, 1))
                   ELSE ROk(ResolverDefine(d.r, stmt.name))
    IN  Then(ResolverDeclare(r, stmt.name))

Resolver_VisitVarDeclStmt(r, stmt, path) ==
    LET AfterInitializer(i) == IF i.err.kind /= "none" THEN i
                       ELSE ROk(ResolverDefine(i.r, stmt.name))
        Then(d) == IF d.err.kind /= "none" THEN d
                   ELSE IF stmt.initializer.k /= "None"
                   THEN AfterInitializer(ResolveExpr(d.r, stmt.initializer, Child(path, 1)))
                   ELSE AfterInitializer(ROk(d.r))
    IN  Then(ResolverDeclare(r, stmt.name))

Resolver_VisitBlockStmt(r, stmt, path) ==
    DeferEndScope(Resolve(BeginScope(r), stmt.statements, path, 1))

Resolver_VisitIfStmt(r, stmt, path) ==
    LET Else(t) == IF t.err.kind /= "none" THEN t
                   ELSE IF stmt.elseBranch.k /= "None"
                   THEN ResolveStmt(t.r, stmt.elseBranch, Child(path, 3))
                   ELSE ROk(t.r)
        Then(c) == IF c.err.kind /= "none" THEN c
                   ELSE Else(ResolveStmt(c.r, stmt.thenBranch, Child(path, 2)))
    IN  Then(ResolveExpr(r, stmt.condition, Child(path, 1)))

Resolver_VisitWhileStmt(r, stmt, path) ==
    LET Then(c) == IF c.err.kind /= "none" THEN c
                   ELSE ResolveStmt(c.r, stmt.body, Child(path, 2))
    IN  Then(ResolveExpr(r, stmt.condition, Child(path, 1)))

\* Faulty variant of VisitFunctionStmt: the body is resolved before the
\* name is declared and defined
Resolver_VisitFunctionStmt_BodyFirst(r, stmt, path) ==
    LET Named(d) == IF d.err.kind /= "none" THEN d
                    ELSE ROk(ResolverDefine(d.r, stmt.name))
        Then(f) == IF f.err.kind /= "none" THEN f
                   ELSE Named(ResolverDeclare(f.r, stmt.name))
    IN  Then(ResolveFunction(r, stmt, path))

\* VisitFunctionStmt: Declare and Define of the name, then ResolveFunction
Resolver_VisitFunctionStmt(r, stmt, path) ==
    LET Then(d) == IF d.err.kind /= "none" THEN d
                   ELSE ResolveFunction(ResolverDefine(d.r, stmt.name), stmt, path)
    IN  Then(ResolverDeclare(r, stmt.name))

\* ResolveStmt: stmt.Accept(r)
ResolveStmt(r, stmt, path) ==
    CASE stmt.k \in {"Expression", "PrintStmt"} -> ResolveExpr(r, stmt.expr, Child(path, 1))
      [] stmt.k = "VarDecl" -> Resolver_VisitVarDeclStmt(r, stmt, path)
      [] stmt.k = "Block" -> Resolver_VisitBlockStmt(r, stmt, path)
      [] stmt.k = "If" -> Resolver_VisitIfStmt(r, stmt, path)
      [] stmt.k = "While" -> Resolver_VisitWhileStmt(r, stmt, path)
      [] stmt.k \in {"Break", "Continue"} -> ROk(r)
      [] stmt.k = "Return" -> ResolveExpr(r, stmt.value, Child(path, 1))
      [] stmt.k = "Function" -> Resolver_VisitFunctionStmt(r, stmt, path)

\* Faulty variant of Resolve: the statements after a failing one are resolved
\* too and the first error is returned at the end
Resolve_Continue(r, stmts, path, i) ==
    LET Rest(a, b) == [r |-> b.r, err |-> IF a.err.kind /= "none" THEN a.err ELSE b.err]
        Then(a) == Rest(a, Resolve(a.r, stmts, path, i + 1))
    IN  IF i > Len(stmts) THEN ROk(r)
        ELSE Then(ResolveStmt(r, stmts[i], Child(path, i)))

\* Resolve: the statements from statement i on, up to the first error
Resolve(r, stmts, path, i) ==
    LET Then(a) == IF a.err.kind /= "none" THEN a
                   ELSE Resolve(a.r, stmts, path, i + 1)
    IN  IF i > Len(stmts) THEN ROk(r)
        ELSE Then(ResolveStmt(r, stmts[i], Child(path, i)))

-----------------------------------------------------------------------------
(* Evaluator: interpreter.go and callable.go.  The state st of a run is    *)
(* the interpreter (its current node env and its hop-count table locals),  *)
(* the heap envs, the program whose nodes the callables point to, the      *)
(* lines printed, and the history log.  Every operation yields the new     *)
(* state, the value and the error.                                         *)

Val(st, v) == [st |-> st, v |-> v, err |-> NoErr]
Fail(st, kind) == [st |-> st, v |-> NilV, err |-> Error(kind)]
Done(st) == [st |-> st, v |-> NilV, err |-> NoErr]

\* the FunctionStmt or LambdaExpr a callable points to
Decl(st, callee) == ProgramNode(st.program, callee.path)

\* fmt's %v of a value: Println and Sprintf("%v%v").  A float64 with an
\* integer value below 1e6 in magnitude prints as its decimal digits
Stringify(st, value) ==
    CASE value.t = "nil" -> "<nil>"
      [] value.t = "bool" -> IF value.v THEN "true" ELSE "false"
      [] value.t = "num" -> ToString(value.v)
      [] value.t = "str" -> value.v
      [] value.t = "function" -> "<fn " \o Decl(st, value).name \o ">"
      [] value.t = "lambda" -> "<lambda>"

checkNumberOperand(operand) == IF isFloat(operand) THEN NoErr ELSE Error("TypeMismatch")

checkNumberOperands(left, right) ==
    IF isFloat(left) /\ isFloat(right) THEN NoErr ELSE Error("TypeMismatch")

\* the cases of the operator switch of VisitBinaryExpr that need two numbers;
\* the quotient is that of the divisible operands the programs use
Arithmetic(op, l, r) ==
    CASE op = ">" -> BoolV(l > r)
      [] op = ">=" -> BoolV(l >= r)
      [] op = "<" -> BoolV(l < r)
      [] op = "<=" -> BoolV(l <= r)
      [] op = "-" -> NumV(l - r)
      [] op = "*" -> NumV(l * r)
      [] op = "/" -> NumV(l \div r)

\* Faulty variant of case Plus: two numbers or two strings only
Plus_Strict(st, left, right) ==
    IF isFloat(left) /\ isFloat(right) THEN Val(st, NumV(left.v + right.v))
    ELSE IF isString(left) /\ isString(right) THEN Val(st, StrV(left.v \o right.v))
    ELSE Fail(st, "TypeMismatch")

\* case Plus of VisitBinaryExpr
Plus(st, left, right) ==
    IF isFloat(left) /\ isFloat(right) THEN Val(st, NumV(left.v + right.v))
    ELSE IF isString(left) /\ isString(right) THEN Val(st, StrV(left.v \o right.v))
    ELSE IF isString(left) \/ isString(right)
    THEN Val(st, StrV(Stringify(st, left) \o Stringify(st, right)))
    ELSE Fail(st, "TypeMismatch")

\* the operator switch of VisitBinaryExpr on the two operand values
BinaryOp(st, op, left, right) ==
    CASE op \in {">", ">=", "<", "<=", "-", "*", "/"} ->
            IF checkNumberOperands(left, right).kind /= "none"
            THEN Fail(st, "TypeMismatch")
            ELSE Val(st, Arithmetic(op, left.v, right.v))
      [] op = "==" -> Val(st, BoolV(isEqual(left, right)))
      [] op = "!=" -> Val(st, BoolV(~isEqual(left, right)))
      [] op = "+" -> Plus(st, left, right)
      [] OTHER -> Fail(st, "UnknownOperator")

\* the operator switch of VisitUnaryExpr
UnaryOp(st, op, right) ==
    CASE op = "-" -> IF checkNumberOperand(right).kind /= "none"
                     THEN Fail(st, "TypeMismatch")
                     ELSE Val(st, NumV(0 - right.v))
      [] op = "!" -> Val(st, BoolV(~isTruthy(right)))
      [] OTHER -> Fail(st, "UnknownOperator")

Logged(st, event) == [st EXCEPT !.log = Append(@, event)]

RECURSIVE Evaluate(_, _, _)
RECURSIVE EvaluateArgs(_, _, _, _, _)
RECURSIVE Execute(_, _, _)
RECURSIVE ExecuteFrom(_, _, _, _)
RECURSIVE WhileLoop(_, _, _)

\* a result without its value: `return nil, err`
NoValue(r) == [r EXCEPT !.v = NilV]

\* what the history keeps of the use of a hop count: the node, the name, the
\* distance, the current node, the number of links above it, the node
\* `distance` links up (0: none), whether that node has the name when the
\* use starts, and the kind of the error returned
LocalUse(st, name, path, kind) ==
    LET Held(holder) ==
            [ev |-> "local", path |-> path, name |-> name, distance |-> st.locals[path],
             env |-> st.env, links |-> Depth(st.envs, st.env), holder |-> holder,
             found |-> IF holder = 0 THEN FALSE ELSE name \in DOMAIN st.envs[holder].values,
             kind |-> kind]
    IN  Held(Ancestor(st.envs, st.env, st.locals[path]))

\* the hop-count branch of a variable read: GetAt with the recorded distance
\* against the current node
LookupLocal(st, name, path) ==
    LET Then(g) == [st |-> Logged(st, LocalUse(st, name, path, g.err.kind)),
                    v |-> g.v, err |-> g.err]
    IN  Then(EnvGetAt(st.envs, st.env, st.locals[path], name))

\* the hop-count branch of an assignment: AssignAt with the recorded distance
AssignLocal(st, name, path, value) ==
    LET Then(a) == [st |-> [Logged(st, LocalUse(st, name, path, a.err.kind))
                               EXCEPT !.envs = a.envs],
                    v |-> value, err |-> a.err]
    IN  Then(EnvAssignAt(st.envs, st.env, st.locals[path], name, value))

\* VisitVariableExpr: without a hop count, i.env.Get(expr.Name)
Interpreter_VisitVariableExpr(st, expr, path) ==
    LET Then(g) == [st |-> st, v |-> g.v, err |-> g.err]
    IN  IF path \in DOMAIN st.locals THEN LookupLocal(st, expr.name, path)
        ELSE Then(EnvGet(st.envs, st.env, expr.name))

\* VisitAssignExpr: without a hop count, i.env.Assign(expr.Name, value); the
\* value is returned beside the error
Interpreter_VisitAssignExpr(st, expr, path) ==
    LET Assigned(r, a) == [st |-> [r.st EXCEPT !.envs = a.envs], v |-> r.v, err |-> a.err]
        Then(r) == IF r.err.kind /= "none" THEN NoValue(r)
                   ELSE IF path \in DOMAIN r.st.locals
                   THEN AssignLocal(r.st, expr.name, path, r.v)
                   ELSE Assigned(r, EnvAssign(r.st.envs, r.st.env, expr.name, r.v))
    IN  Then(Evaluate(st, expr.value, Child(path, 1)))

Interpreter_VisitBinaryExpr(st, expr, path) ==
    LET Right(l, r) == IF r.err.kind /= "none" THEN NoValue(r)
                       ELSE BinaryOp(r.st, expr.op, l.v, r.v)
        Left(l) == IF l.err.kind /= "none" THEN NoValue(l)
                   ELSE Right(l, Evaluate(l.st, expr.right, Child(path, 2)))
    IN  Left(Evaluate(st, expr.left, Child(path, 1)))

Interpreter_VisitUnaryExpr(st, expr, path) ==
    LET Then(r) == IF r.err.kind /= "none" THEN NoValue(r)
                   ELSE UnaryOp(r.st, expr.op, r.v)
    IN  Then(Evaluate(st, expr.right, Child(path, 1)))

\* Faulty variant of VisitLogicalExpr: the right operand is evaluated before
\* the left value is tested
Interpreter_VisitLogicalExpr_Eager(st, expr, path) ==
    LET Right(l, r) == IF r.err.kind /= "none" THEN NoValue(r)
                       ELSE IF expr.op = "or" /\ isTruthy(l.v) THEN [r EXCEPT !.v = l.v]
                       ELSE IF expr.op /= "or" /\ ~isTruthy(l.v) THEN [r EXCEPT !.v = l.v]
                       ELSE r
        Then(l) == IF l.err.kind /= "none" THEN NoValue(l)
                   ELSE Right(l, Evaluate(l.st, expr.right, Child(path, 2)))
    IN  Then(Evaluate(st, expr.left, Child(path, 1)))

\* VisitLogicalExpr: the left value is the result when it is truthy under or
\* and when it is falsy under and; the right operand is evaluated otherwise
Interpreter_VisitLogicalExpr(st, expr, path) ==
    LET Then(l) == IF l.err.kind /= "none" THEN NoValue(l)
                   ELSE IF expr.op = "or" /\ isTruthy(l.v) THEN l
                   ELSE IF expr.op /= "or" /\ ~isTruthy(l.v) THEN l
                   ELSE Evaluate(l.st, expr.right, Child(path, 2))
    IN  Then(Evaluate(st, expr.left, Child(path, 1)))

\* the loop of ExecuteBlock from statement i; the history gets the node
\* that is current when the statement starts
ExecuteFrom(st, statements, path, i) ==
    LET Then(a) == IF a.err.kind /= "none" THEN a
                   ELSE ExecuteFrom(a.st, statements, path, i + 1)
    IN  IF i > Len(statements) THEN Done(st)
        ELSE Then(Execute(Logged(st, [ev |-> "in", path |-> Child(path, i), env |-> st.env]),
                          statements[i], Child(path, i)))

\* Faulty variant of ExecuteBlock: the previous node is restored only when
\* the statements end without an error
ExecuteBlock_NoRestoreOnError(st, statements, path, e) ==
    LET Left(b) == Logged(b.st, [ev |-> "leave", path |-> path, env |-> b.st.env,
                                 kind |-> b.err.kind])
        Returned(b) == [b EXCEPT !.st = Left(b)]
        Deferred(b) == IF b.err.kind = "none" THEN [b EXCEPT !.st.env = st.env] ELSE b
    IN  Returned(Deferred(ExecuteFrom(
            Logged([st EXCEPT !.env = e],
                   [ev |-> "enter", path |-> path, previous |-> st.env, env |-> e]),
            statements, path, 1)))

\* ExecuteBlock: the statements run with node e current; the deferred
\* assignment restores the previous node on every return.  The history gets
\* the entry (the previous and the new current node) and the return (the
\* node current after it and the kind of the error returned)
ExecuteBlock(st, statements, path, e) ==
    LET Left(b) == Logged(b.st, [ev |-> "leave", path |-> path, env |-> b.st.env,
                                 kind |-> b.err.kind])
        Returned(b) == [b EXCEPT !.st = Left(b)]
        Deferred(b) == [b EXCEPT !.st.env = st.env]
    IN  Returned(Deferred(ExecuteFrom(
            Logged([st EXCEPT !.env = e],
                   [ev |-> "enter", path |-> path, previous |-> st.env, env |-> e]),
            statements, path, 1)))

\* Faulty variant of Arity: the length of the body
FunctionArity_Body(st, callee) == Len(Decl(st, callee).body)

\* Arity of a Function or Lambda
FunctionArity(st, callee) == Len(Decl(st, callee).params)

\* the loop of Function.Call binding parameter i to arguments[i-1] in node e;
\* an index past the arguments panics
RECURSIVE BindParams(_, _, _, _, _)
BindParams(h, e, params, arguments, i) ==
    IF i > Len(params) THEN [envs |-> h, err |-> NoErr]
    ELSE IF i > Len(arguments) THEN [envs |-> h, err |-> Error("panic")]
    ELSE BindParams(EnvDefine(h, e, params[i], arguments[i]), e, params, arguments, i + 1)

\* Faulty variant of the node of a call: a copy of the captured node
CallEnvironment_Snapshot(st, callee) ==
    Append(st.envs, [values |-> st.envs[callee.closure].values,
                     enclosing |-> st.envs[callee.closure].enclosing])

\* Faulty variant of the node of a call: a child of the caller's current node
CallEnvironment_Caller(st, callee) == NewEnvironment(st.envs, st.env)

\* the node Function.Call and Lambda.Call create: NewEnvironment(f.closure)
CallEnvironment(st, callee) == NewEnvironment(st.envs, callee.closure)

\* the end of Function.Call: a ReturnValue error is the result of the call,
\* any other error is returned, no error is the result nil
CallResult(b) ==
    IF b.err.kind = "return" THEN Val(b.st, b.err.value)
    ELSE IF b.err.kind /= "none" THEN NoValue(b)
    ELSE Val(b.st, NilV)

\* Function.Call and Lambda.Call: decl is the declaration of the callee and
\* e the identity of the new node; the history gets the call: the callee, the
\* caller's current node, the new node and its contents when the body starts
FunctionCall(st, callee, arguments) ==
    LET Body(decl, e, bound) ==
            IF bound.err.kind /= "none" THEN [st |-> st, v |-> NilV, err |-> bound.err]
            ELSE CallResult(ExecuteBlock(
                     Logged([st EXCEPT !.envs = bound.envs],
                            [ev |-> "call", path |-> callee.path, closure |-> callee.closure,
                             current |-> st.env, env |-> e, frame |-> bound.envs[e],
                             arguments |-> arguments]),
                     decl.body, callee.path, e))
        Bind(decl, e) == Body(decl, e, BindParams(CallEnvironment(st, callee), e,
                                                  decl.params, arguments, 1))
    IN  Bind(Decl(st, callee), Len(st.envs) + 1)

\* the loop over the arguments of a call from argument i; v is the sequence
\* of the values
EvaluateArgs(st, arguments, path, i, values) ==
    LET Then(a) == IF a.err.kind /= "none" THEN [st |-> a.st, v |-> values, err |-> a.err]
                   ELSE EvaluateArgs(a.st, arguments, path, i + 1, Append(values, a.v))
    IN  IF i > Len(arguments) THEN [st |-> st, v |-> values, err |-> NoErr]
        ELSE Then(Evaluate(st, arguments[i], Child(path, 1 + i)))

\* VisitCallExpr: the callee, the callable check, the arguments left to
\* right, the arity check, the call
Interpreter_VisitCallExpr(st, expr, path) ==
    LET Invoke(c, a) ==
            IF a.err.kind /= "none" THEN [st |-> a.st, v |-> NilV, err |-> a.err]
            ELSE IF Len(a.v) /= FunctionArity(a.st, c.v) THEN Fail(a.st, "ArityMismatch")
            ELSE IF a.st.steps >= MaxSteps THEN Fail(a.st, "OutOfSteps")
            ELSE FunctionCall([a.st EXCEPT !.steps = @ + 1], c.v, a.v)
        Then(c) == IF c.err.kind /= "none" THEN NoValue(c)
                   ELSE IF ~isCallable(c.v) THEN Fail(c.st, "NotCallable")
                   ELSE Invoke(c, EvaluateArgs(c.st, expr.arguments, path, 1, <<>>))
    IN  Then(Evaluate(st, expr.callee, Child(path, 1)))

\* VisitLambdaExpr: a Lambda capturing the current node
Interpreter_VisitLambdaExpr(st, expr, path) == Val(st, LambdaV(st.env, path))

\* Evaluate: expr.Accept(i)
Evaluate(st, expr, path) ==
    CASE expr.k = "Literal" -> Val(st, expr.value)
      [] expr.k = "Grouping" -> Evaluate(st, expr.expression, Child(path, 1))
      [] expr.k = "Unary" -> Interpreter_VisitUnaryExpr(st, expr, path)
      [] expr.k = "Binary" -> Interpreter_VisitBinaryExpr(st, expr, path)
      [] expr.k = "Variable" -> Interpreter_VisitVariableExpr(st, expr, path)
      [] expr.k = "Assign" -> Interpreter_VisitAssignExpr(st, expr, path)
      [] expr.k = "Logical" -> Interpreter_VisitLogicalExpr(st, expr, path)
      [] expr.k = "Call" -> Interpreter_VisitCallExpr(st, expr, path)
      [] expr.k = "Lambda" -> Interpreter_VisitLambdaExpr(st, expr, path)

Interpreter_VisitPrintStmt(st, stmt, path) ==
    LET Then(r) == IF r.err.kind /= "none" THEN NoValue(r)
                   ELSE Done([r.st EXCEPT !.output = Append(@, Stringify(r.st, r.v))])
    IN  Then(Evaluate(st, stmt.expr, Child(path, 1)))

Interpreter_VisitExpressionStmt(st, stmt, path) ==
    NoValue(Evaluate(st, stmt.expr, Child(path, 1)))

Interpreter_VisitVarDeclStmt(st, stmt, path) ==
    LET Then(r) == IF r.err.kind /= "none" THEN NoValue(r)
                   ELSE Done([r.st EXCEPT !.envs = EnvDefine(@, r.st.env, stmt.name, r.v)])
    IN  IF stmt.initializer.k = "None"
        THEN Done([st EXCEPT !.envs = EnvDefine(@, st.env, stmt.name, NilV)])
        ELSE Then(Evaluate(st, stmt.initializer, Child(path, 1)))

\* Faulty variant of VisitBlockStmt: the statements run in the current node
Interpreter_VisitBlockStmt_SameNode(st, stmt, path) ==
    ExecuteBlock(st, stmt.statements, path, st.env)

\* VisitBlockStmt: ExecuteBlock(stmt.Statements, NewEnvironment(i.env))
Interpreter_VisitBlockStmt(st, stmt, path) ==
    ExecuteBlock([st EXCEPT !.envs = NewEnvironment(@, st.env)],
                 stmt.statements, path, Len(st.envs) + 1)

\* VisitIfStmt: b is the branch to execute, NoNode when there is none
Interpreter_VisitIfStmt(st, stmt, path) ==
    LET Branch(c, b) == IF b = 0 THEN Done(c.st)
                        ELSE Execute(c.st, IF b = 2 THEN stmt.thenBranch ELSE stmt.elseBranch,
                                     Child(path, b))
        Then(c) == IF c.err.kind /= "none" THEN NoValue(c)
                   ELSE IF isTruthy(c.v) THEN Branch(c, 2)
                   ELSE IF stmt.elseBranch.k /= "None" THEN Branch(c, 3)
                   ELSE Branch(c, 0)
    IN  Then(Evaluate(st, stmt.condition, Child(path, 1)))

\* what the loop does with the error of its body: a break signal ends the
\* loop, a continue signal goes to the next condition check, any other
\* error (a return signal too) is returned
LoopControl(e) ==
    CASE e.kind = "none" -> "next"
      [] e.kind = "break" -> "exit"
      [] e.kind = "continue" -> "next"
      [] OTHER -> "return"

\* the for loop of VisitWhileStmt
WhileLoop(st, stmt, path) ==
    LET Body(b) == IF LoopControl(b.err) = "return" THEN b
                   ELSE IF LoopControl(b.err) = "exit" THEN Done(b.st)
                   ELSE WhileLoop(b.st, stmt, path)
        Then(c) == IF c.err.kind /= "none" THEN NoValue(c)
                   ELSE IF ~isTruthy(c.v) THEN Done(c.st)
                   ELSE IF c.st.steps >= MaxSteps THEN Fail(c.st, "OutOfSteps")
                   ELSE Body(Execute([c.st EXCEPT !.steps = @ + 1], stmt.body, Child(path, 2)))
    IN  Then(Evaluate(st, stmt.condition, Child(path, 1)))

Interpreter_VisitWhileStmt(st, stmt, path) == WhileLoop(st, stmt, path)

\* VisitFunctionStmt: a Function capturing the current node, defined under
\* the function's name in that node
Interpreter_VisitFunctionStmt(st, stmt, path) ==
    Done([st EXCEPT !.envs = EnvDefine(@, st.env, stmt.name, FunV(st.env, path))])

\* VisitReturnStmt: the return signal with the value, nil when absent
Interpreter_VisitReturnStmt(st, stmt, path) ==
    LET Then(r) == IF r.err.kind /= "none" THEN NoValue(r)
                   ELSE [st |-> r.st, v |-> NilV, err |-> ReturnValue(r.v)]
    IN  IF stmt.value.k = "None" THEN [st |-> st, v |-> NilV, err |-> ReturnValue(NilV)]
        ELSE Then(Evaluate(st, stmt.value, Child(path, 1)))

Interpreter_VisitBreakStmt(st) == Fail(st, "break")
Interpreter_VisitContinueStmt(st) == Fail(st, "continue")

\* the visitor stmt.Accept(i) dispatches to
Accept(s, stmt, path) ==
    CASE stmt.k = "Expression" -> Interpreter_VisitExpressionStmt(s, stmt, path)
      [] stmt.k = "PrintStmt" -> Interpreter_VisitPrintStmt(s, stmt, path)
      [] stmt.k = "VarDecl" -> Interpreter_VisitVarDeclStmt(s, stmt, path)
      [] stmt.k = "Block" -> Interpreter_VisitBlockStmt(s, stmt, path)
      [] stmt.k = "If" -> Interpreter_VisitIfStmt(s, stmt, path)
      [] stmt.k = "While" -> Interpreter_VisitWhileStmt(s, stmt, path)
      [] stmt.k = "Function" -> Interpreter_VisitFunctionStmt(s, stmt, path)
      [] stmt.k = "Return" -> Interpreter_VisitReturnStmt(s, stmt, path)
      [] stmt.k = "Break" -> Interpreter_VisitBreakStmt(s)
      [] stmt.k = "Continue" -> Interpreter_VisitContinueStmt(s)

\* Execute: stmt.Accept(i); the history gets the statement's identity
Execute(st, stmt, path) ==
    Accept(Logged(st, [ev |-> "exec", path |-> path]), stmt, path)

-----------------------------------------------------------------------------
(* The scanner (scanner.go).  A source is the sequence of its characters;  *)
(* Start and Current count the characters before the position, as in Go.   *)

Digits == {"0", "1", "2", "3", "4", "5", "6", "7", "8", "9"}
Letters ==
    {"a", "b", "c", "d", "e", "f", "g", "h", "i", "j", "k", "l", "m", "n", "o", "p", "q", "r",
     "s", "t", "u", "v", "w", "x", "y", "z", "A", "B", "C", "D", "E", "F", "G", "H", "I", "J",
     "K", "L", "M", "N", "O", "P", "Q", "R", "S", "T", "U", "V", "W", "X", "Y", "Z"}

IsDigit(c) == c \in Digits
IsAlpha(c) == c \in Letters \/ c = "_"
IsAlphaNumeric(c) == IsAlpha(c) \/ IsDigit(c)

\* the byte 0 that Peek and PeekNext return past the end of the source
NoChar == ""

\* the map Keywords
Keywords ==
    (<<"a", "n", "d">> :> "And")
    @@ (<<"c", "l", "a", "s", "s">> :> "Class")
    @@ (<<"e", "l", "s", "e">> :> "Else")
    @@ (<<"f", "a", "l", "s", "e">> :> "False")
    @@ (<<"f", "o", "r">> :> "For")
    @@ (<<"f", "u", "n">> :> "Fun")
    @@ (<<"i", "f">> :> "If")
    @@ (<<"n", "i", "l">> :> "Nil")
    @@ (<<"o", "r">> :> "Or")
    @@ (<<"p", "r", "i", "n", "t">> :> "Print")
    @@ (<<"r", "e", "t", "u", "r", "n">> :> "Return")
    @@ (<<"s", "u", "p", "e", "r">> :> "Super")
    @@ (<<"t", "h", "i", "s">> :> "This")
    @@ (<<"t", "r", "u", "e">> :> "True")
    @@ (<<"v", "a", "r">> :> "Var")
    @@ (<<"w", "h", "i", "l", "e">> :> "While")
    @@ (<<"b", "r", "e", "a", "k">> :> "Break")
    @@ (<<"c", "o", "n", "t", "i", "n", "u", "e">> :> "Continue")

NewScanner(source) ==
    [source |-> source, tokens |-> <<>>, start |-> 0, current |-> 0, line |-> 1]

AtEnd(s) == s.current >= Len(s.source)

\* Advance: the character at Current is consumed
ScanAdvance(s) == [s EXCEPT !.current = @ + 1]

ScanPeek(s) == IF AtEnd(s) THEN NoChar ELSE s.source[s.current + 1]

ScanPeekNext(s) == IF s.current + 1 >= Len(s.source) THEN NoChar ELSE s.source[s.current + 2]

\* Match: the scanner after Match(expected) and whether it matched
ScanMatch(s, expected) ==
    IF AtEnd(s) THEN [s |-> s, matched |-> FALSE]
    ELSE IF s.source[s.current + 1] /= expected THEN [s |-> s, matched |-> FALSE]
    ELSE [s |-> ScanAdvance(s), matched |-> TRUE]

\* AdvanceUntil: up to the target or the end, counting the lines
RECURSIVE AdvanceUntil(_, _)
AdvanceUntil(s, target) ==
    IF ~AtEnd(s) /\ ScanPeek(s) /= target
    THEN AdvanceUntil(ScanAdvance([s EXCEPT !.line = IF ScanPeek(s) = "\n" THEN @ + 1 ELSE @]),
                      target)
    ELSE s

\* the loop `for unicode.IsDigit(rune(s.Peek())) { s.Advance() }`
RECURSIVE AdvanceDigits(_)
AdvanceDigits(s) == IF IsDigit(ScanPeek(s)) THEN AdvanceDigits(ScanAdvance(s)) ELSE s

\* the loop `for IsAlphaNumeric(s.Peek()) { s.Advance() }`
RECURSIVE AdvanceAlphaNumeric(_)
AdvanceAlphaNumeric(s) ==
    IF IsAlphaNumeric(ScanPeek(s)) THEN AdvanceAlphaNumeric(ScanAdvance(s)) ELSE s

\* s.Source[s.Start:s.Current]
Lexeme(s) == SubSeq(s.source, s.start + 1, s.current)

AddTokenLiteral(s, type, literal) ==
    [s EXCEPT !.tokens = Append(@, [type |-> type, lexeme |-> Lexeme(s),
                                    literal |-> literal, line |-> s.line])]

AddToken(s, type) == AddTokenLiteral(s, type, NilV)

\* the result of ScanToken: the scanner and the error
Scanned(s) == [s |-> s, err |-> NoErr]
ScanError(s, kind) == [s |-> s, err |-> Error(kind)]

\* lo.Ternary(s.Match(expected), two, one) handed to AddToken
AddOneOrTwo(s, expected, two, one) ==
    LET Then(m) == AddToken(m.s, IF m.matched THEN two ELSE one)
    IN  Then(ScanMatch(s, expected))

ParseString(s) ==
    LET Closed(a) == AddTokenLiteral(a, "String", SubSeq(a.source, a.start + 2, a.current - 1))
        Then(a) == IF AtEnd(a) THEN ScanError(a, "UnterminatedString")
                   ELSE Scanned(Closed(ScanAdvance(a)))
    IN  Then(AdvanceUntil(s, "\""))

\* the value of a sequence of digits
RECURSIVE Whole(_)
Whole(digits) ==
    IF Len(digits) = 0 THEN 0
    ELSE 10 * Whole(SubSeq(digits, 1, Len(digits) - 1))
         + CHOOSE d \in 0..9 : ToString(d) = digits[Len(digits)]

\* strconv.ParseFloat of digits with an optional fraction: the whole part and
\* the digits of the fraction
ParseFloat(text) ==
    LET Split(dots) ==
            IF dots = {} THEN [whole |-> Whole(text), fraction |-> <<>>]
            ELSE [whole |-> Whole(SubSeq(text, 1, (CHOOSE i \in dots : TRUE) - 1)),
                  fraction |-> SubSeq(text, (CHOOSE i \in dots : TRUE) + 1, Len(text))]
    IN  Split({i \in DOMAIN text : text[i] = "."})

ParseNumber(s) ==
    LET Number(a) == Scanned(AddTokenLiteral(a, "Number", ParseFloat(Lexeme(a))))
        Fraction(a) == IF ScanPeek(a) = "." /\ IsDigit(ScanPeekNext(a))
                       THEN Number(AdvanceDigits(ScanAdvance(a)))
                       ELSE Number(a)
    IN  Fraction(AdvanceDigits(s))

ParseIdentifier(s) ==
    LET Then(a) == IF Lexeme(a) \in DOMAIN Keywords
                   THEN Scanned(AddToken(a, Keywords[Lexeme(a)]))
                   ELSE Scanned(AddToken(a, "Identifier"))
    IN  Then(AdvanceAlphaNumeric(s))

\* the single-character tokens of the switch of ScanToken
SingleCharacter ==
    ("(" :> "LeftParen") @@ (")" :> "RightParen") @@ ("{" :> "LeftBrace")
    @@ ("}" :> "RightBrace") @@ ("," :> "Comma") @@ ("." :> "Dot") @@ ("-" :> "Minus")
    @@ ("+" :> "Plus") @@ (";" :> "Semicolon") @@ ("*" :> "Star")

\* ScanToken: c is the character Advance returns and a the scanner after it
ScanToken(s) ==
    LET Comment(m) == IF m.matched THEN AdvanceUntil(m.s, "\n") ELSE AddToken(m.s, "Slash")
        Switch(c, a) ==
            CASE c \in DOMAIN SingleCharacter -> Scanned(AddToken(a, SingleCharacter[c]))
              [] c = "!" -> Scanned(AddOneOrTwo(a, "=", "BangEqual", "Bang"))
              [] c = "=" -> Scanned(AddOneOrTwo(a, "=", "EqualEqual", "Equal"))
              [] c = "<" -> Scanned(AddOneOrTwo(a, "=", "LessEqual", "Less"))
              [] c = ">" -> Scanned(AddOneOrTwo(a, "=", "GreaterEqual", "Greater"))
              [] c = "/" -> Scanned(Comment(ScanMatch(a, "/")))
              [] c \in {" ", "\r", "\t"} -> Scanned(a)
              [] c = "\n" -> Scanned([a EXCEPT !.line = @ + 1])
              [] c = "\"" -> ParseString(a)
              [] IsDigit(c) -> ParseNumber(a)
              [] IsAlpha(c) -> ParseIdentifier(a)
              [] OTHER -> ScanError(a, "UnexpectedCharacter")
    IN  Switch(s.source[s.current + 1], ScanAdvance(s))

\* Faulty variant of the end of ScanTokens: the EOF token is appended twice
AddEOF_Twice(s) ==
    [s EXCEPT !.tokens = @ \o << [type |-> "EOF", lexeme |-> <<>>, literal |-> NilV,
                                  line |-> s.line],
                                 [type |-> "EOF", lexeme |-> <<>>, literal |-> NilV,
                                  line |-> s.line] >>]

\* the end of ScanTokens: the EOF token
AddEOF(s) ==
    [s EXCEPT !.tokens = Append(@, [type |-> "EOF", lexeme |-> <<>>,
                                    literal |-> NilV, line |-> s.line])]

\* well-formed sources, each with its lexemes in order
VarLanguage == <<"v", "a", "r", " ", "l", "a", "n", "g", "u", "a", "g", "e", " ", "=", " ", "\"", "l", "o", "x", "\"", ";">>

ScanCases ==
    { [source |-> VarLanguage,
        lexemes |-> <<<<"v", "a", "r">>, <<"l", "a", "n", "g", "u", "a", "g", "e">>, <<"=">>, <<"\"", "l", "o", "x", "\"">>, <<";">>>>],
      [source |-> <<"p", "r", "i", "n", "t", " ", "1", " ", "+", " ", "2", ";">>,
        lexemes |-> <<<<"p", "r", "i", "n", "t">>, <<"1">>, <<"+">>, <<"2">>, <<";">>>>],
      [source |-> <<"a", " ", ">", "=", " ", "b", " ", "!", "=", " ", "c">>,
        lexemes |-> <<<<"a">>, <<">", "=">>, <<"b">>, <<"!", "=">>, <<"c">>>>],
      [source |-> <<"x", " ", "=", " ", "1", ".", "5", ";", " ", "/", "/", " ", "c", "\n", "y">>,
        lexemes |-> <<<<"x">>, <<"=">>, <<"1", ".", "5">>, <<";">>, <<"y">>>>],
      [source |-> <<"!", "(", "a", " ", "=", "=", " ", "b", ")">>,
        lexemes |-> <<<<"!">>, <<"(">>, <<"a">>, <<"=", "=">>, <<"b">>, <<")">>>>],
      [source |-> <<"f", "u", "n", " ", "f", "(", ")", " ", "{", " ", "r", "e", "t", "u", "r", "n", ";", " ", "}">>,
        lexemes |-> <<<<"f", "u", "n">>, <<"f">>, <<"(">>, <<")">>, <<"{">>, <<"r", "e", "t", "u", "r", "n">>, <<";">>, <<"}">>>>],
      [source |-> <<>>,
        lexemes |-> <<>>],
      [source |-> <<"a", "<", "=", "b", "/", "2", "*", "-", "3">>,
        lexemes |-> <<<<"a">>, <<"<", "=">>, <<"b">>, <<"/">>, <<"2">>, <<"*">>, <<"-">>, <<"3">>>>],
      [source |-> <<"1", ".">>,
        lexemes |-> <<<<"1">>, <<".">>>>],
      [source |-> <<"w", "h", "i", "l", "e", "_", "1", " ", "o", "r", " ", "n", "i", "l">>,
        lexemes |-> <<<<"w", "h", "i", "l", "e", "_", "1">>, <<"o", "r">>, <<"n", "i", "l">>>>],
      [source |-> <<"\"", "a", "\n", "b", "\"", " ", ",">>,
        lexemes |-> <<<<"\"", "a", "\n", "b", "\"">>, <<",">>>>],
      [source |-> <<"f", "o", "r", " ", "(", "v", "a", "r", " ", "i", " ", "=", " ", "0", ";", " ", "i", " ", "<", " ", "3", ";", " ", "i", " ", "=", " ", "i", " ", "+", " ", "1", ")", " ", "p", "r", "i", "n", "t", " ", "i", ";">>,
        lexemes |-> <<<<"f", "o", "r">>, <<"(">>, <<"v", "a", "r">>, <<"i">>, <<"=">>, <<"0">>, <<";">>, <<"i">>, <<"<">>, <<"3">>, <<";">>, <<"i">>, <<"=">>, <<"i">>, <<"+">>, <<"1">>, <<")">>, <<"p", "r", "i", "n", "t">>, <<"i">>, <<";">>>>],
      [source |-> <<"\t", " ", "x", " ", ">", " ", "y", " ", "\r", "\n">>,
        lexemes |-> <<<<"x">>, <<">">>, <<"y">>>>] }

\* sources with an unterminated string or a character of no token
IllFormed == {<<"\"", "a", "b">>, <<"a", " ", "@", " ", "b">>, <<"1", " ", "#", " ", "2">>}

\* sources that end inside a token or right after one: the empty source, a
\* number ending in a dot, a number with a fraction, a comment without a
\* final newline, a lone slash, bang and quote, ==, and strings over two
\* lines with and without the closing quote
EdgeSources ==
    { <<>>, <<"1", ".">>, <<"1", ".", "5">>, <<"a", " ", "/", "/", " ", "c">>, <<"/">>,
      <<"!">>, <<"=", "=">>, <<"\"">>, <<"\"", "a", "\n", "b">>,
      <<"\"", "a", "\n", "b", "\"">> }

Sources == {c.source : c \in ScanCases} \cup IllFormed \cup EdgeSources

-----------------------------------------------------------------------------
(* The parser's depth counters.  The parser is followed over the tree it   *)
(* builds when no statement is misplaced: its state is the two counters    *)
(* LoopDepth and CallableDepth and whether an error was returned; an error *)
(* ends the parse at once, the counters staying as they are.               *)

NewParser == [LoopDepth |-> 0, CallableDepth |-> 0, ok |-> TRUE]

\* Parser.Error returned
ParseError(p) == [p EXCEPT !.ok = FALSE]

\* BreakStatement and ContinueStatement: an error when LoopDepth is 0
BreakStatement(loopDepth) == loopDepth /= 0
ContinueStatement(loopDepth) == loopDepth /= 0

\* ReturnStatement: an error when CallableDepth is 0
ReturnStatement(callableDepth) == callableDepth /= 0

RECURSIVE Parses(_, _)
RECURSIVE ParseAll(_, _, _)

\* Faulty variant of WhileStatement: LoopDepth is not lowered after the body
WhileStatement_NoDecrement(p, node) ==
    LET Then(c) == IF ~c.ok THEN c
                   ELSE Parses([c EXCEPT !.LoopDepth = @ + 1], node.body)
    IN  Then(Parses(p, node.condition))

\* WhileStatement: the condition, LoopDepth++, the body, LoopDepth--
WhileStatement(p, node) ==
    LET Body(b) == IF ~b.ok THEN b ELSE [b EXCEPT !.LoopDepth = @ - 1]
        Then(c) == IF ~c.ok THEN c
                   ELSE Body(Parses([c EXCEPT !.LoopDepth = @ + 1], node.body))
    IN  Then(Parses(p, node.condition))

\* FunDeclaration and Lambda: CallableDepth++, the body, CallableDepth--
FunDeclaration(p, node) ==
    LET Body(b) == IF ~b.ok THEN b ELSE [b EXCEPT !.CallableDepth = @ - 1]
    IN  Body(ParseAll([p EXCEPT !.CallableDepth = @ + 1], node.body, 1))

\* the parser over a statement or expression of the tree, in source order
Parses(p, node) ==
    LET Second(a, second) == IF ~a.ok THEN a ELSE Parses(a, second)
        Third(a, second, third) == IF ~a.ok THEN a ELSE Second(Parses(a, second), third)
    IN  CASE node.k = "Break" ->
                IF BreakStatement(p.LoopDepth) THEN p ELSE ParseError(p)
          [] node.k = "Continue" ->
                IF ContinueStatement(p.LoopDepth) THEN p ELSE ParseError(p)
          [] node.k = "Return" ->
                IF ReturnStatement(p.CallableDepth) THEN Parses(p, node.value)
                ELSE ParseError(p)
          [] node.k = "While" -> WhileStatement(p, node)
          [] node.k \in {"Function", "Lambda"} -> FunDeclaration(p, node)
          [] node.k = "Block" -> ParseAll(p, node.statements, 1)
          [] node.k = "If" ->
                Third(Parses(p, node.condition), node.thenBranch, node.elseBranch)
          [] node.k \in {"Expression", "PrintStmt"} -> Parses(p, node.expr)
          [] node.k = "VarDecl" -> Parses(p, node.initializer)
          [] node.k = "Assign" -> Parses(p, node.value)
          [] node.k = "Unary" -> Parses(p, node.right)
          [] node.k = "Grouping" -> Parses(p, node.expression)
          [] node.k \in {"Binary", "Logical"} -> Second(Parses(p, node.left), node.right)
          [] node.k = "Call" -> ParseAll(Parses(p, node.callee), node.arguments, 1)
          [] OTHER -> p

\* the loop of Program, Block and Arguments from element i, up to the first
\* error
ParseAll(p, nodes, i) ==
    IF ~p.ok \/ i > Len(nodes) THEN p
    ELSE ParseAll(Parses(p, nodes[i]), nodes, i + 1)

\* Faulty variant of the rewriting of a for loop: the increment before the body
ForStatement_IncrementFirst(initializer, condition, increment, body) ==
    LET Wrapped(loop) == IF initializer.k /= "None" THEN BlockStmt(<<initializer, loop>>)
                         ELSE loop
    IN  Wrapped(WhileStmt(IF condition.k /= "None" THEN condition ELSE LiteralExpr(BoolV(TRUE)),
                          IF increment.k /= "None"
                          THEN BlockStmt(<<ExpressionStmt(increment), body>>)
                          ELSE body))

\* ForStatement: the tree a for loop is rewritten to, NoNode standing for a
\* missing clause: the body and the increment in a block when there is an
\* increment, the literal true for a missing condition, the initializer and
\* the loop in a block when there is an initializer
ForStatement(initializer, condition, increment, body) ==
    LET Wrapped(loop) == IF initializer.k /= "None" THEN BlockStmt(<<initializer, loop>>)
                         ELSE loop
    IN  Wrapped(WhileStmt(IF condition.k /= "None" THEN condition ELSE LiteralExpr(BoolV(TRUE)),
                          IF increment.k /= "None"
                          THEN BlockStmt(<<body, ExpressionStmt(increment)>>)
                          ELSE body))

\* Parser.Program: no declaration returns an error, both counters starting
\* at 0
ParserAccepts(statements) == ParseAll(NewParser, statements, 1).ok

-----------------------------------------------------------------------------
(* The programs of the model: families of syntax trees as the parser       *)
(* builds them, each with the source text it is parsed from.               *)

Num(n) == LiteralExpr(NumV(n))
Str(s) == LiteralExpr(StrV(s))
Var(name) == VariableExpr(name)
Call0(name) == CallExpr(Var(name), <<>>)

\* the literals: nil, true, false, numbers, strings
LiteralValues == {NilV, BoolV(TRUE), BoolV(FALSE), NumV(0), NumV(1), NumV(2), StrV(""), StrV("a")}

\* sequences over S of length 1..n
SeqsUpTo(S, n) == UNION {[1..m -> S] : m \in 1..n}

(* fun make() { var i = i0; fun inc() { i = i + 1; return i; } return inc; } *)
(* var c = make(); var d = make(); print x(); ... for each x of calls        *)
MakeDecl(i0) ==
    FunctionStmt("make", <<>>, <<
        VarDeclStmt("i", Num(i0)),
        FunctionStmt("inc", <<>>, <<
            ExpressionStmt(AssignExpr("i", BinaryExpr(Var("i"), "+", Num(1)))),
            ReturnStmt(Var("i")) >>),
        ReturnStmt(Var("inc")) >>)

CounterProgram(i0, calls) ==
    <<MakeDecl(i0), VarDeclStmt("c", Call0("make")), VarDeclStmt("d", Call0("make"))>>
    \o [j \in 1..Len(calls) |-> PrintStmt(Call0(calls[j]))]

CounterStarts == {0, 1}
CallSequences == SeqsUpTo({"c", "d"}, MaxCalls)
CounterPrograms == {CounterProgram(i0, calls) : i0 \in CounterStarts, calls \in CallSequences}

(* var a = v; { var a = a + 1; print a; } *)
ShadowInitProgram(v) ==
    << VarDeclStmt("a", Num(v)),
       BlockStmt(<< VarDeclStmt("a", BinaryExpr(Var("a"), "+", Num(1))), PrintStmt(Var("a")) >>) >>

ShadowInitValues == {1, 2}
ShadowInitPrograms == {ShadowInitProgram(v) : v \in ShadowInitValues}

(* The non-global scopes a statement list can be put in:                    *)
(*   block      { S }                 nested     { { S } }                  *)
(*   function   fun f() { S }         params     fun f(b) { S }             *)
(*   lambda     var g = fun () { S }; inner      fun f() { { S } }          *)
(*   after      { var b = 1; S }      shadow     { var a = 1; { S } }       *)
ScopeKinds == {"block", "nested", "function", "params", "lambda", "inner", "after", "shadow"}

InScope(kind, stmts) ==
    CASE kind = "block" -> BlockStmt(stmts)
      [] kind = "nested" -> BlockStmt(<<BlockStmt(stmts)>>)
      [] kind = "function" -> FunctionStmt("f", <<>>, stmts)
      [] kind = "params" -> FunctionStmt("f", <<"b">>, stmts)
      [] kind = "lambda" -> VarDeclStmt("g", LambdaExpr(<<>>, stmts))
      [] kind = "inner" -> FunctionStmt("f", <<>>, <<BlockStmt(stmts)>>)
      [] kind = "after" -> BlockStmt(<<VarDeclStmt("b", Num(1))>> \o stmts)
      [] kind = "shadow" -> BlockStmt(<<VarDeclStmt("a", Num(1)), BlockStmt(stmts)>>)

\* the statements before the scope: nothing, or the global  var a = 1;
Preludes == {<<>>, <<VarDeclStmt("a", Num(1))>>}

(* The initializers that read a outside any nested function:                *)
(*   a   a + 1   (a)   -a   !a   a or 1   1 and a   a()   a == a            *)
SelfReadingInitializers ==
    { Var("a"), BinaryExpr(Var("a"), "+", Num(1)), GroupingExpr(Var("a")),
      UnaryExpr("-", Var("a")), UnaryExpr("!", Var("a")),
      LogicalExpr(Var("a"), "or", Num(1)), LogicalExpr(Num(1), "and", Var("a")),
      Call0("a"), BinaryExpr(Var("a"), "==", Var("a")) }

(* prelude  scope{ var a = init; print a; } *)
SelfRefProgram(prelude, kind, init) ==
    prelude \o <<InScope(kind, <<VarDeclStmt("a", init), PrintStmt(Var("a"))>>)>>

SelfRefPrograms ==
    {SelfRefProgram(p, kind, init) : p \in Preludes, kind \in ScopeKinds, init \in SelfReadingInitializers}

(* Duplicate declarations.  The declarations of a:                          *)
(*   var a = 1;     var a;     fun a() {}                                   *)
Declarations ==
    {VarDeclStmt("a", Num(1)), VarDeclStmt("a", NoNode), FunctionStmt("a", <<>>, <<>>)}

(* scope{ d1 d2 }: two declarations of a in one non-global scope, alone or  *)
(* with a statement between them                                            *)
DupProgram(kind, d1, between, d2) == <<InScope(kind, <<d1>> \o between \o <<d2>>)>>

(* a parameter declared twice, and a parameter declared again in the body:  *)
(*   fun f(a, a) {}    fun f(a) { var a = 1; }    var g = fun (a, a) {};    *)
ParamDupPrograms ==
    { <<FunctionStmt("f", <<"a", "a">>, <<>>)>>,
      <<FunctionStmt("f", <<"a">>, <<VarDeclStmt("a", Num(1))>>)>>,
      <<VarDeclStmt("g", LambdaExpr(<<"a", "a">>, <<>>))>> }

DupPrograms ==
    {DupProgram(kind, d1, between, d2) :
        kind \in ScopeKinds, d1 \in Declarations, d2 \in Declarations,
        between \in {<<>>, <<PrintStmt(Num(0))>>}}
    \cup ParamDupPrograms

(* d1 d2 at the top level: the global scope is not tracked *)
GlobalDupPrograms == {<<d1, d2>> : d1 \in Declarations, d2 \in Declarations}

(* Shadowing.  The body                                                     *)
(*   var a = 1; { var a = 2; print a; } print a;                            *)
(* at the top level, in a block, in a called function, and with the inner   *)
(* block one block deeper; inner and outer are the identities of the two    *)
(* reads of a, hop the hop count of the outer read (-1: none)               *)
ShadowBody(inner) == <<VarDeclStmt("a", Num(1)), inner, PrintStmt(Var("a"))>>
InnerBlock == BlockStmt(<<VarDeclStmt("a", Num(2)), PrintStmt(Var("a"))>>)

ShadowCases ==
    { [program |-> ShadowBody(InnerBlock),
       inner |-> <<2, 2, 1>>, outer |-> <<3, 1>>, hop |-> -1],
      [program |-> <<BlockStmt(ShadowBody(InnerBlock))>>,
       inner |-> <<1, 2, 2, 1>>, outer |-> <<1, 3, 1>>, hop |-> 0],
      [program |-> <<FunctionStmt("f", <<>>, ShadowBody(InnerBlock)), ExpressionStmt(Call0("f"))>>,
       inner |-> <<1, 2, 2, 1>>, outer |-> <<1, 3, 1>>, hop |-> 0],
      [program |-> <<BlockStmt(<<VarDeclStmt("a", Num(1)),
                                 BlockStmt(<<InnerBlock, PrintStmt(Var("a"))>>)>>)>>,
       inner |-> <<1, 2, 1, 2, 1>>, outer |-> <<1, 2, 2, 1>>, hop |-> 1] }

ShadowPrograms == {c.program : c \in ShadowCases}

(* var a = g; { fun show() { print a; } show(); var a = b; show(); }         *)
(* for texts g and b                                                        *)
ShowProgram(g, b) ==
    << VarDeclStmt("a", Str(g)),
       BlockStmt(<< FunctionStmt("show", <<>>, <<PrintStmt(Var("a"))>>),
                    ExpressionStmt(Call0("show")),
                    VarDeclStmt("a", Str(b)),
                    ExpressionStmt(Call0("show")) >>) >>

GlobalTexts == {"global", "outer"}
BlockTexts == {"block", "inner"}
ShowPrograms == {ShowProgram(g, b) : g \in GlobalTexts, b \in BlockTexts}

(* Calls.  Each case is a program with the lines it prints.                 *)
Minus(l, r) == BinaryExpr(l, "-", r)
SubDecl == <<"a", "b">>
SubBody == <<ReturnStmt(Minus(Var("a"), Var("b")))>>
ArgumentValues == {1, 3}

(* var x = "global"; fun f() { return x; } { var x = "block"; print f(); }  *)
CapturedCase ==
    [program |-> << VarDeclStmt("x", Str("global")),
                    FunctionStmt("f", <<>>, <<ReturnStmt(Var("x"))>>),
                    BlockStmt(<<VarDeclStmt("x", Str("block")), PrintStmt(Call0("f"))>>) >>,
     output |-> <<"global">>]

(* fun f(a, b) { return a - b; } print f(x, y); *)
PositionalCase(x, y) ==
    [program |-> << FunctionStmt("f", SubDecl, SubBody),
                    PrintStmt(CallExpr(Var("f"), <<Num(x), Num(y)>>)) >>,
     output |-> <<ToString(x - y)>>]

(* var l = fun (a, b) { return a - b; }; { print l(x, y); } *)
LambdaCase(x, y) ==
    [program |-> << VarDeclStmt("l", LambdaExpr(SubDecl, SubBody)),
                    BlockStmt(<<PrintStmt(CallExpr(Var("l"), <<Num(x), Num(y)>>))>>) >>,
     output |-> <<ToString(x - y)>>]

(* fun h(a) { a + 1; } print h(1); var l = fun () {}; print l(); *)
FallOffCase ==
    [program |-> << FunctionStmt("h", <<"a">>, <<ExpressionStmt(BinaryExpr(Var("a"), "+", Num(1)))>>),
                    PrintStmt(CallExpr(Var("h"), <<Num(1)>>)),
                    VarDeclStmt("l", LambdaExpr(<<>>, <<>>)),
                    PrintStmt(Call0("l")) >>,
     output |-> <<"<nil>", "<nil>">>]

(* fun g(n) { while (true) { { if (n > limit) return n; } n = n + 1; }      *)
(*            print "unreachable"; }                                        *)
(* print g(0); print "after";                                               *)
NestedReturnCase(limit) ==
    [program |-> << FunctionStmt("g", <<"n">>, <<
                        WhileStmt(LiteralExpr(BoolV(TRUE)), BlockStmt(<<
                            BlockStmt(<<IfStmt(BinaryExpr(Var("n"), ">", Num(limit)),
                                               ReturnStmt(Var("n")), NoNode)>>),
                            ExpressionStmt(AssignExpr("n", BinaryExpr(Var("n"), "+", Num(1)))) >>)),
                        PrintStmt(Str("unreachable")) >>),
                    PrintStmt(CallExpr(Var("g"), <<Num(0)>>)),
                    PrintStmt(Str("after")) >>,
     output |-> <<ToString(limit + 1), "after">>]

(* fun inner() { return 1; } fun outer() { inner(); return 2; } print outer(); *)
InnerReturnCase ==
    [program |-> << FunctionStmt("inner", <<>>, <<ReturnStmt(Num(1))>>),
                    FunctionStmt("outer", <<>>, <<ExpressionStmt(Call0("inner")), ReturnStmt(Num(2))>>),
                    PrintStmt(Call0("outer")) >>,
     output |-> <<"2">>]

CallCases ==
    {CapturedCase, FallOffCase, InnerReturnCase}
    \cup {PositionalCase(x, y) : x \in ArgumentValues, y \in ArgumentValues}
    \cup {LambdaCase(x, y) : x \in ArgumentValues, y \in ArgumentValues}
    \cup {NestedReturnCase(limit) : limit \in 0..2}

CallPrograms == {c.program : c \in CallCases}

(* Calls that fail.  The callee of arity n declared as a function or as a   *)
(* lambda, its body a print; the call has m /= n arguments, each of them an *)
(* assignment to the global k:                                              *)
(*   var k = 0; fun f(p1, ..) { print "body"; } f(k = 1, ..);               *)
Params(n) == [i \in 1..n |-> <<"p1", "p2">>[i]]
BodyPrint == <<PrintStmt(Str("body"))>>
Arguments(m) == [i \in 1..m |-> AssignExpr("k", Num(i))]

ArityProgram(form, n, m) ==
    << VarDeclStmt("k", Num(0)),
       IF form = "function" THEN FunctionStmt("f", Params(n), BodyPrint)
       ELSE VarDeclStmt("f", LambdaExpr(Params(n), BodyPrint)),
       ExpressionStmt(CallExpr(Var("f"), Arguments(m))) >>

ArityPrograms ==
    {ArityProgram(form, nm[1], nm[2]) :
        form \in {"function", "lambda"},
        nm \in {p \in (0..2) \X (0..2) : p[1] /= p[2]}}

(* var k = 0; var f = v; f(k = 1, ..);  for a value v that is no callable *)
NotCallableProgram(v, m) ==
    << VarDeclStmt("k", Num(0)),
       VarDeclStmt("f", LiteralExpr(v)),
       ExpressionStmt(CallExpr(Var("f"), Arguments(m))) >>

NotCallablePrograms == {NotCallableProgram(v, m) : v \in LiteralValues, m \in 0..1}

(* print l + r;  for literals l and r *)
PlusProgram(l, r) == <<PrintStmt(BinaryExpr(LiteralExpr(l), "+", LiteralExpr(r)))>>

PlusPrograms == {PlusProgram(l, r) : l \in LiteralValues, r \in LiteralValues}

(* var k = 0; print l op (k = 1); print k;  ("right": only the right       *)
(* operand assigns) and  var k = 0; print (k = l) op (k = 2); print k;      *)
(* ("both": the two operands assign), for a literal l and op in and, or    *)
LogicalOps == {"and", "or"}
LogicalForms == {"right", "both"}

LogicalProgram(l, op, form) ==
    << VarDeclStmt("k", Num(0)),
       PrintStmt(LogicalExpr(
           IF form = "right" THEN LiteralExpr(l)
           ELSE GroupingExpr(AssignExpr("k", LiteralExpr(l))),
           op,
           GroupingExpr(AssignExpr("k", IF form = "right" THEN Num(1) ELSE Num(2))))),
       PrintStmt(Var("k")) >>

LogicalPrograms ==
    {LogicalProgram(l, op, form) : l \in LiteralValues, op \in LogicalOps, form \in LogicalForms}
(* v holds a literal, a function or a lambda:                              *)
(*   var v = l;  |  fun v() {}  |  var v = fun () {};                      *)
(*   if (v) print "then"; else print "else";                               *)
(*   print !v; print v and "right"; print v or "right";                    *)
(*   while (v) { print "loop"; v = nil; }                                  *)
\* the values v takes: the literals, and the Function and the Lambda the
\* first statement makes in the global node
TruthSubjects == LiteralValues \cup {FunV(1, <<1>>), LambdaV(1, <<1, 1>>)}

TruthDecl(value) ==
    CASE value.t = "function" -> FunctionStmt("v", <<>>, <<>>)
      [] value.t = "lambda" -> VarDeclStmt("v", LambdaExpr(<<>>, <<>>))
      [] OTHER -> VarDeclStmt("v", LiteralExpr(value))

TruthProgram(value) ==
    << TruthDecl(value),
       IfStmt(Var("v"), PrintStmt(Str("then")), PrintStmt(Str("else"))),
       PrintStmt(UnaryExpr("!", Var("v"))),
       PrintStmt(LogicalExpr(Var("v"), "and", Str("right"))),
       PrintStmt(LogicalExpr(Var("v"), "or", Str("right"))),
       WhileStmt(Var("v"), BlockStmt(<< PrintStmt(Str("loop")),
                                        ExpressionStmt(AssignExpr("v", LiteralExpr(NilV))) >>)) >>

TruthPrograms == {TruthProgram(value) : value \in TruthSubjects}
(* var k = 0; followed by MaxStmts top-level statements, each one of       *)
(*   print k;  |  k = k + 1;  |  var b = k;  |  print u;  |  -"a";          *)
(* the last two fail: u is not defined and "a" is not a number             *)
StepKinds == {"print", "assign", "define", "undefined", "mismatch"}
FailingKinds == {"undefined", "mismatch"}

StepStmt(kind) ==
    CASE kind = "print" -> PrintStmt(Var("k"))
      [] kind = "assign" -> ExpressionStmt(AssignExpr("k", BinaryExpr(Var("k"), "+", Num(1))))
      [] kind = "define" -> VarDeclStmt("b", Var("k"))
      [] kind = "undefined" -> PrintStmt(Var("u"))
      [] kind = "mismatch" -> ExpressionStmt(UnaryExpr("-", Str("a")))

StepsProgram(kinds) ==
    <<VarDeclStmt("k", Num(0))>> \o [i \in 1..Len(kinds) |-> StepStmt(kinds[i])]

StepSequences == [1..MaxStmts -> StepKinds]
StepsPrograms == {StepsProgram(kinds) : kinds \in StepSequences}
(* A break, continue or return statement s in six places:                  *)
(*   top:      s; print "after";                                           *)
(*   loop:     var n = 0; while (n < 2) { n = n + 1; s; } print n;         *)
(*   function: fun f() { s; } f(); print "after";                          *)
(*   called:   var n = 0; while (n < 2) { n = n + 1; fun f() { s; } f(); } *)
(*             print n;                                                    *)
(*   escaped:  var g = nil; var n = 0;                                     *)
(*             while (n < 1) { n = n + 1; fun f() { s; } g = f; }          *)
(*             g(); print "after";                                         *)
(*   lambda:   as escaped with  g = fun () { s; };                         *)
(* the programs of the model are those the parser accepts                  *)
Signals == {"break", "continue", "return"}
SignalForms == {"top", "loop", "function", "called", "escaped", "lambda"}

SignalStmt(signal) ==
    CASE signal = "break" -> BreakStmt
      [] signal = "continue" -> ContinueStmt
      [] signal = "return" -> ReturnStmt(LiteralExpr(NilV))

CountTo(limit, rest) ==
    WhileStmt(BinaryExpr(Var("n"), "<", Num(limit)),
              BlockStmt(<<ExpressionStmt(AssignExpr("n", BinaryExpr(Var("n"), "+", Num(1))))>>
                        \o rest))

SignalCandidate(form, signal) ==
    CASE form = "top" -> << SignalStmt(signal), PrintStmt(Str("after")) >>
      [] form = "loop" ->
            << VarDeclStmt("n", Num(0)), CountTo(2, <<SignalStmt(signal)>>), PrintStmt(Var("n")) >>
      [] form = "function" ->
            << FunctionStmt("f", <<>>, <<SignalStmt(signal)>>),
               ExpressionStmt(Call0("f")), PrintStmt(Str("after")) >>
      [] form = "called" ->
            << VarDeclStmt("n", Num(0)),
               CountTo(2, << FunctionStmt("f", <<>>, <<SignalStmt(signal)>>),
                             ExpressionStmt(Call0("f")) >>),
               PrintStmt(Var("n")) >>
      [] form = "escaped" ->
            << VarDeclStmt("g", LiteralExpr(NilV)), VarDeclStmt("n", Num(0)),
               CountTo(1, << FunctionStmt("f", <<>>, <<SignalStmt(signal)>>),
                             ExpressionStmt(AssignExpr("g", Var("f"))) >>),
               ExpressionStmt(Call0("g")), PrintStmt(Str("after")) >>
      [] form = "lambda" ->
            << VarDeclStmt("g", LiteralExpr(NilV)), VarDeclStmt("n", Num(0)),
               CountTo(1, <<ExpressionStmt(AssignExpr("g",
                                LambdaExpr(<<>>, <<SignalStmt(signal)>>)))>>),
               ExpressionStmt(Call0("g")), PrintStmt(Str("after")) >>

SignalCandidates == {SignalCandidate(form, signal) : form \in SignalForms, signal \in Signals}
SignalPrograms == {p \in SignalCandidates : ParserAccepts(p)}
(* Counting loops up to a limit:                                           *)
(*   count:  for (var i = 0; i < limit; i = i + 1) print i; print "after"; *)
(*   after:  for (var i = 0; i < limit; i = i + 1) print i; print i;       *)
(*   shadow: var i = "g";                                                  *)
(*           for (var i = 0; i < limit; i = i + 1) print i; print i;       *)
(*   open:   fun f() { for (var i = 0;; i = i + 1) {                       *)
(*                         if (i >= limit) return i; print i; } }          *)
(*           print f();                                                    *)
(*   bare:   var i = 0; for (; i < limit;) { print i; i = i + 1; } print i;*)
Limits == 0..MaxLoop
ForForms == {"count", "after", "shadow", "open", "bare"}

Increment(name) == AssignExpr(name, BinaryExpr(Var(name), "+", Num(1)))
Below(name, limit) == BinaryExpr(Var(name), "<", Num(limit))

CountingLoop(limit) ==
    ForStatement(VarDeclStmt("i", Num(0)), Below("i", limit), Increment("i"), PrintStmt(Var("i")))

ForProgram(form, limit) ==
    CASE form = "count" -> << CountingLoop(limit), PrintStmt(Str("after")) >>
      [] form = "after" -> << CountingLoop(limit), PrintStmt(Var("i")) >>
      [] form = "shadow" -> << VarDeclStmt("i", Str("g")), CountingLoop(limit), PrintStmt(Var("i")) >>
      [] form = "open" ->
            << FunctionStmt("f", <<>>, <<
                   ForStatement(VarDeclStmt("i", Num(0)), NoNode, Increment("i"),
                                BlockStmt(<< IfStmt(BinaryExpr(Var("i"), ">=", Num(limit)),
                                                    ReturnStmt(Var("i")), NoNode),
                                             PrintStmt(Var("i")) >>)) >>),
               PrintStmt(Call0("f")) >>
      [] form = "bare" ->
            << VarDeclStmt("i", Num(0)),
               ForStatement(NoNode, Below("i", limit), NoNode,
                            BlockStmt(<<PrintStmt(Var("i")), ExpressionStmt(Increment("i"))>>)),
               PrintStmt(Var("i")) >>

ForPrograms == {ForProgram(form, limit) : form \in ForForms, limit \in Limits}

(* Loops with continue, for a limit above 0:                               *)
(*   for:   for (var i = 0; i < limit; i = i + 1) { continue; }            *)
(*          print "after";                                                 *)
(*   print: for (var i = 0; i < limit; i = i + 1)                          *)
(*              { print i; continue; print "skipped"; }  print "after";   *)
(*   while: var n = 0;                                                     *)
(*          while (n < limit) { n = n + 1; continue; print "skipped"; }    *)
(*          print n;                                                       *)
ContinueForms == {"for", "print", "while"}

ContinueProgram(form, limit) ==
    CASE form = "for" ->
            << ForStatement(VarDeclStmt("i", Num(0)), Below("i", limit), Increment("i"),
                            BlockStmt(<<ContinueStmt>>)),
               PrintStmt(Str("after")) >>
      [] form = "print" ->
            << ForStatement(VarDeclStmt("i", Num(0)), Below("i", limit), Increment("i"),
                            BlockStmt(<< PrintStmt(Var("i")), ContinueStmt,
                                         PrintStmt(Str("skipped")) >>)),
               PrintStmt(Str("after")) >>
      [] form = "while" ->
            << VarDeclStmt("n", Num(0)),
               WhileStmt(Below("n", limit),
                         BlockStmt(<< ExpressionStmt(Increment("n")), ContinueStmt,
                                      PrintStmt(Str("skipped")) >>)),
               PrintStmt(Var("n")) >>

ContinuePrograms ==
    {ContinueProgram(form, limit) : form \in ContinueForms, limit \in Limits \ {0}}
(* { var b = 1; s1; s2; s3; } print "after";  where the statement at the   *)
(* given position is the offending one and the others are  print b;        *)
(*   selfref:    var a = a;                                                *)
(*   duplicate:  var b = 2;                                                *)
(*   expression: var a = b + a + b;                                        *)
AbortKinds == {"selfref", "duplicate", "expression"}
AbortPositions == 1..MaxStmts

Offending(kind) ==
    CASE kind = "selfref" -> VarDeclStmt("a", Var("a"))
      [] kind = "duplicate" -> VarDeclStmt("b", Num(2))
      [] kind = "expression" ->
            VarDeclStmt("a", BinaryExpr(BinaryExpr(Var("b"), "+", Var("a")), "+", Var("b")))

AbortProgram(kind, position) ==
    << BlockStmt(<<VarDeclStmt("b", Num(1))>>
                 \o [j \in AbortPositions |->
                        IF j = position THEN Offending(kind) ELSE PrintStmt(Var("b"))]),
       PrintStmt(Str("after")) >>

AbortPrograms == {AbortProgram(kind, position) : kind \in AbortKinds, position \in AbortPositions}
(* the initializers of a that assign a:  (a = 1),  a = 1,  (a = 1) + 1     *)
SelfAssigningInitializers ==
    { GroupingExpr(AssignExpr("a", Num(1))),
      AssignExpr("a", Num(1)),
      BinaryExpr(GroupingExpr(AssignExpr("a", Num(1))), "+", Num(1)) }

SelfAssignPrograms ==
    {SelfRefProgram(prelude, kind, init) :
        prelude \in Preludes, kind \in ScopeKinds, init \in SelfAssigningInitializers}
(* Recursive functions called with n:                                      *)
(*   block:    { fun f(p) { if (0 < p) print f(p - 1); return p; }         *)
(*               print f(n); }                                             *)
(*   function: fun outer(a) {                                              *)
(*               fun g(q) { if (a < q) return g(q - 1); return q; }        *)
(*               return g(a + 1); }                                        *)
(*             print outer(n);                                             *)
(*   global:   fun f(p) { if (0 < p) print f(p - 1); return p; }           *)
(*             print f(n);                                                 *)
RecursionForms == {"block", "function", "global"}
RecursionArguments == 0..2

Countdown ==
    FunctionStmt("f", <<"p">>,
                 << IfStmt(BinaryExpr(Num(0), "<", Var("p")),
                           PrintStmt(CallExpr(Var("f"), <<Minus(Var("p"), Num(1))>>)),
                           NoNode),
                    ReturnStmt(Var("p")) >>)

RecursionProgram(form, n) ==
    CASE form = "block" ->
            << BlockStmt(<< Countdown, PrintStmt(CallExpr(Var("f"), <<Num(n)>>)) >>) >>
      [] form = "function" ->
            << FunctionStmt("outer", <<"a">>,
                   << FunctionStmt("g", <<"q">>,
                          << IfStmt(BinaryExpr(Var("a"), "<", Var("q")),
                                    ReturnStmt(CallExpr(Var("g"), <<Minus(Var("q"), Num(1))>>)),
                                    NoNode),
                             ReturnStmt(Var("q")) >>),
                      ReturnStmt(CallExpr(Var("g"),
                                          <<BinaryExpr(Var("a"), "+", Num(1))>>)) >>),
               PrintStmt(CallExpr(Var("outer"), <<Num(n)>>)) >>
      [] form = "global" ->
            << Countdown, PrintStmt(CallExpr(Var("f"), <<Num(n)>>)) >>

RecursionPrograms ==
    {RecursionProgram(form, n) : form \in RecursionForms, n \in RecursionArguments}

(* Declarations and references at the top level:                           *)
(*   redeclare:     var a = 1; var a = 2; print a;                         *)
(*   selfInit:      var a = 1; var a = a + 1; print a;                     *)
(*   selfUndefined: var a = a; print a;                                    *)
(*   funRedeclare:  fun f() { return 1; } fun f() { return 2; } print f(); *)
(*   varThenFun:    var f = 1; fun f() { return 2; } print f();            *)
(*   fromBlock:     var a = 1;                                             *)
(*                  { print a; a = 2; fun g() { return a; } print g(); }   *)
GlobalForms == {"redeclare", "selfInit", "selfUndefined", "funRedeclare", "varThenFun",
                "fromBlock"}

GlobalProgram(form) ==
    CASE form = "redeclare" ->
            << VarDeclStmt("a", Num(1)), VarDeclStmt("a", Num(2)), PrintStmt(Var("a")) >>
      [] form = "selfInit" ->
            << VarDeclStmt("a", Num(1)),
               VarDeclStmt("a", BinaryExpr(Var("a"), "+", Num(1))), PrintStmt(Var("a")) >>
      [] form = "selfUndefined" ->
            << VarDeclStmt("a", Var("a")), PrintStmt(Var("a")) >>
      [] form = "funRedeclare" ->
            << FunctionStmt("f", <<>>, <<ReturnStmt(Num(1))>>),
               FunctionStmt("f", <<>>, <<ReturnStmt(Num(2))>>), PrintStmt(Call0("f")) >>
      [] form = "varThenFun" ->
            << VarDeclStmt("f", Num(1)),
               FunctionStmt("f", <<>>, <<ReturnStmt(Num(2))>>), PrintStmt(Call0("f")) >>
      [] form = "fromBlock" ->
            << VarDeclStmt("a", Num(1)),
               BlockStmt(<< PrintStmt(Var("a")), ExpressionStmt(AssignExpr("a", Num(2))),
                            FunctionStmt("g", <<>>, <<ReturnStmt(Var("a"))>>),
                            PrintStmt(Call0("g")) >>) >>

GlobalPrograms == {GlobalProgram(form) : form \in GlobalForms}

(* A parameter a and declarations of a in the body, for a function and a   *)
(* lambda f:                                                               *)
(*   twice:     f(a, a) { print a; }                         f(2, 3);      *)
(*   inBody:    f(a) { var a = 1; print a; }                 f(2);         *)
(*   funInBody: f(a) { fun a() {} print a; }                 f(2);         *)
(*   inBlock:   f(a) { { var a = 1; print a; } print a; }    f(2);         *)
CallableKinds == {"function", "lambda"}
ParamForms == {"twice", "inBody", "funInBody", "inBlock"}

ParamBody(form) ==
    CASE form = "twice" -> << PrintStmt(Var("a")) >>
      [] form = "inBody" -> << VarDeclStmt("a", Num(1)), PrintStmt(Var("a")) >>
      [] form = "funInBody" -> << FunctionStmt("a", <<>>, <<>>), PrintStmt(Var("a")) >>
      [] form = "inBlock" ->
            << BlockStmt(<< VarDeclStmt("a", Num(1)), PrintStmt(Var("a")) >>),
               PrintStmt(Var("a")) >>

ParamProgram(kind, form) ==
    LET params == IF form = "twice" THEN <<"a", "a">> ELSE <<"a">>
        arguments == IF form = "twice" THEN <<Num(2), Num(3)>> ELSE <<Num(2)>>
    IN  << IF kind = "function" THEN FunctionStmt("f", params, ParamBody(form))
           ELSE VarDeclStmt("f", LambdaExpr(params, ParamBody(form))),
           ExpressionStmt(CallExpr(Var("f"), arguments)) >>

ParamPrograms == {ParamProgram(kind, form) : kind \in CallableKinds, form \in ParamForms}

(* A closure made in the first iteration of a for loop and called in every *)
(* iteration and after the loop:                                           *)
(*   var f = nil;                                                          *)
(*   for (var i = 0; i < limit; i = i + 1) {                               *)
(*       if (i == 0) f = fun () { return i; };                             *)
(*       print f(); }                                                      *)
(*   print f();                                                            *)
ClosureLoopProgram(limit) ==
    << VarDeclStmt("f", LiteralExpr(NilV)),
       ForStatement(VarDeclStmt("i", Num(0)), Below("i", limit), Increment("i"),
                    BlockStmt(<< IfStmt(BinaryExpr(Var("i"), "==", Num(0)),
                                        ExpressionStmt(AssignExpr("f",
                                            LambdaExpr(<<>>, <<ReturnStmt(Var("i"))>>))),
                                        NoNode),
                                 PrintStmt(Call0("f")) >>)),
       PrintStmt(Call0("f")) >>

ClosureLoopPrograms == {ClosureLoopProgram(limit) : limit \in Limits \ {0}}

(* A break, continue or return s at places after or beside a loop or a     *)
(* function:                                                               *)
(*   afterLoop:      while (false) { } s; print "after";                   *)
(*   afterFunction:  fun f() { } s; print "after";                         *)
(*   nestedLoop:     while (false) { while (false) { } s; } print "after"; *)
(*   loopInFunction: fun f() { while (false) { } s; } print "after";       *)
(*   condition:      while (fun () { s; }()) { } print "after";            *)
(*   branch:         if (true) s; else print "else"; print "after";        *)
MisplacedForms == {"afterLoop", "afterFunction", "nestedLoop", "loopInFunction",
                   "condition", "branch"}

Never == LiteralExpr(BoolV(FALSE))

MisplacedCandidate(form, signal) ==
    CASE form = "afterLoop" ->
            << WhileStmt(Never, BlockStmt(<<>>)), SignalStmt(signal), PrintStmt(Str("after")) >>
      [] form = "afterFunction" ->
            << FunctionStmt("f", <<>>, <<>>), SignalStmt(signal), PrintStmt(Str("after")) >>
      [] form = "nestedLoop" ->
            << WhileStmt(Never, BlockStmt(<< WhileStmt(Never, BlockStmt(<<>>)),
                                             SignalStmt(signal) >>)),
               PrintStmt(Str("after")) >>
      [] form = "loopInFunction" ->
            << FunctionStmt("f", <<>>, << WhileStmt(Never, BlockStmt(<<>>)),
                                          SignalStmt(signal) >>),
               PrintStmt(Str("after")) >>
      [] form = "condition" ->
            << WhileStmt(CallExpr(LambdaExpr(<<>>, <<SignalStmt(signal)>>), <<>>),
                         BlockStmt(<<>>)),
               PrintStmt(Str("after")) >>
      [] form = "branch" ->
            << IfStmt(LiteralExpr(BoolV(TRUE)), SignalStmt(signal), PrintStmt(Str("else"))),
               PrintStmt(Str("after")) >>

MisplacedCandidates ==
    {MisplacedCandidate(form, signal) : form \in MisplacedForms, signal \in Signals}

\* the texts handed to Parse: the programs of the families and the
\* candidates, of which some are not accepted
SyntaxCandidates == SignalCandidates \cup MisplacedCandidates

Programs ==
    CounterPrograms \cup ShadowInitPrograms \cup SelfRefPrograms \cup DupPrograms
    \cup GlobalDupPrograms \cup ShadowPrograms \cup ShowPrograms \cup CallPrograms
    \cup ArityPrograms \cup NotCallablePrograms \cup PlusPrograms
    \cup LogicalPrograms \cup TruthPrograms \cup StepsPrograms
    \cup SignalPrograms \cup ForPrograms \cup ContinuePrograms
    \cup AbortPrograms \cup SelfAssignPrograms
    \cup {c \in MisplacedCandidates : ParserAccepts(c)}
    \cup RecursionPrograms \cup GlobalPrograms \cup ParamPrograms
    \cup ClosureLoopPrograms

-----------------------------------------------------------------------------
(* The driver: the program is resolved once, then interpreted statement by *)
(* statement.                                                              *)

NoOp == [op |-> "none"]

Init ==
    /\ program \in Programs \cup SyntaxCandidates
    /\ pc = "source"
    /\ locals = <<>>
    /\ scopes = <<>>
    /\ resolveErr = NoErr
    /\ envs = NewEnvironment(<<>>, 0)
    /\ env = 1
    /\ next = 1
    /\ output = <<>>
    /\ log = <<>>
    /\ err = NoErr
    /\ last = NoOp
    /\ scanner = NewScanner(<<>>)

\* Parse(source) in RunFile: on an error RunFile returns it, and neither the
\* resolver nor the interpreter gets the program
ParseProgram ==
    /\ pc = "source"
    /\ pc' = IF ParserAccepts(program) THEN "parsed" ELSE "syntaxError"
    /\ UNCHANGED <<program, locals, scopes, resolveErr, envs, env, next, output, log, err,
                   last, scanner>>

\* Resolver.Resolve(program) on a new resolver; a rejected program is not run
ResolveProgram ==
    /\ pc = "parsed"
    /\ LET Resolved(res) ==
               /\ locals' = res.r.locals
               /\ scopes' = res.r.scopes
               /\ resolveErr' = res.err
               /\ pc' = IF res.err.kind = "none" THEN "running" ELSE "rejected"
       IN  Resolved(Resolve(NewResolver, program, <<>>, 1))
    /\ UNCHANGED <<program, envs, env, next, output, log, err, last, scanner>>

\* Faulty variant of the loop of Interpret: the error of a statement is
\* kept but the loop goes on to the next statement
InterpretStep_Continue ==
    /\ pc = "running"
    /\ next <= Len(program)
    /\ LET Executed(res) ==
               /\ envs' = res.st.envs
               /\ env' = res.st.env
               /\ output' = res.st.output
               /\ log' = res.st.log
               /\ err' = res.err
               /\ next' = next + 1
               /\ pc' = IF next = Len(program) THEN "done" ELSE "running"
       IN  Executed(Execute([program |-> program, locals |-> locals, envs |-> envs,
                             env |-> env, output |-> output, log |-> log, steps |-> 0],
                            program[next], <<next>>))
    /\ UNCHANGED <<program, locals, scopes, resolveErr, last, scanner>>

\* one iteration of the loop of Interpret: the next top-level statement
InterpretStep ==
    /\ pc = "running"
    /\ next <= Len(program)
    /\ LET Executed(res) ==
               /\ envs' = res.st.envs
               /\ env' = res.st.env
               /\ output' = res.st.output
               /\ log' = res.st.log
               /\ err' = res.err
               /\ next' = next + 1
               /\ pc' = IF res.err.kind /= "none" THEN "failed"
                        ELSE IF next = Len(program) THEN "done" ELSE "running"
       IN  Executed(Execute([program |-> program, locals |-> locals, envs |-> envs,
                             env |-> env, output |-> output, log |-> log, steps |-> 0],
                            program[next], <<next>>))
    /\ UNCHANGED <<program, locals, scopes, resolveErr, last, scanner>>

Next == ParseProgram \/ ResolveProgram \/ InterpretStep

Spec == Init /\ [][Next]_vars

-----------------------------------------------------------------------------
(* The environment chain on its own: a chain is built with NewEnvironment  *)
(* and Define, then one of Get, GetAt, Assign, AssignAt is applied to it;  *)
(* last is the operation, the chain before it and its result.  The value   *)
(* defined in node e is the number e, so that a read shows the node it     *)
(* came from; the value assigned is 0.                                     *)

Names == {"x", "y"}
Assigned == NumV(0)
Nodes == 1..Len(envs)
Distances == 0..(MaxEnvs - 1)

EnvInit ==
    /\ program = <<>>
    /\ pc = "env"
    /\ locals = <<>>
    /\ scopes = <<>>
    /\ resolveErr = NoErr
    /\ envs = NewEnvironment(<<>>, 0)
    /\ env = 1
    /\ next = 1
    /\ output = <<>>
    /\ log = <<>>
    /\ err = NoErr
    /\ last = NoOp
    /\ scanner = NewScanner(<<>>)

Operation(op, e, distance, name, value, result, error) ==
    [op |-> op, e |-> e, distance |-> distance, name |-> name, value |-> value,
     before |-> envs, result |-> result, err |-> error]

NewEnvironmentOp ==
    /\ last.op = "none"
    /\ Len(envs) < MaxEnvs
    /\ \E enclosing \in Nodes : envs' = NewEnvironment(envs, enclosing)
    /\ UNCHANGED <<program, pc, locals, scopes, resolveErr, env, next, output, log, err, last, scanner>>

DefineOp ==
    /\ last.op = "none"
    /\ \E e \in Nodes, name \in Names :
          /\ name \notin DOMAIN envs[e].values
          /\ envs' = EnvDefine(envs, e, name, NumV(e))
    /\ UNCHANGED <<program, pc, locals, scopes, resolveErr, env, next, output, log, err, last, scanner>>

GetOp ==
    /\ last.op = "none"
    /\ \E e \in Nodes, name \in Names :
          LET Then(g) == last' = Operation("Get", e, 0, name, NilV, g.v, g.err)
          IN  Then(EnvGet(envs, e, name))
    /\ UNCHANGED <<program, pc, locals, scopes, resolveErr, envs, env, next, output, log, err, scanner>>

GetAtOp ==
    /\ last.op = "none"
    /\ \E e \in Nodes, distance \in Distances, name \in Names :
          LET Then(g) == last' = Operation("GetAt", e, distance, name, NilV, g.v, g.err)
          IN  Then(EnvGetAt(envs, e, distance, name))
    /\ UNCHANGED <<program, pc, locals, scopes, resolveErr, envs, env, next, output, log, err, scanner>>

AssignOp ==
    /\ last.op = "none"
    /\ \E e \in Nodes, name \in Names :
          LET Then(a) == /\ envs' = a.envs
                         /\ last' = Operation("Assign", e, 0, name, Assigned, NilV, a.err)
          IN  Then(EnvAssign(envs, e, name, Assigned))
    /\ UNCHANGED <<program, pc, locals, scopes, resolveErr, env, next, output, log, err, scanner>>

AssignAtOp ==
    /\ last.op = "none"
    /\ \E e \in Nodes, distance \in Distances, name \in Names :
          LET Then(a) == /\ envs' = a.envs
                         /\ last' = Operation("AssignAt", e, distance, name, Assigned,
                                                NilV, a.err)
          IN  Then(EnvAssignAt(envs, e, distance, name, Assigned))
    /\ UNCHANGED <<program, pc, locals, scopes, resolveErr, env, next, output, log, err, scanner>>

EnvNext == NewEnvironmentOp \/ DefineOp \/ GetOp \/ GetAtOp \/ AssignOp \/ AssignAtOp

EnvSpec == EnvInit /\ [][EnvNext]_vars

-----------------------------------------------------------------------------
(* The scanner on its own: ScanTokens on one of the sources, one iteration *)
(* of its loop at a time.                                                  *)

ScanInit ==
    /\ program = <<>>
    /\ pc = "scanning"
    /\ locals = <<>>
    /\ scopes = <<>>
    /\ resolveErr = NoErr
    /\ envs = NewEnvironment(<<>>, 0)
    /\ env = 1
    /\ next = 1
    /\ output = <<>>
    /\ log = <<>>
    /\ err = NoErr
    /\ last = NoOp
    /\ scanner \in {NewScanner(source) : source \in Sources}

\* one iteration of the loop of ScanTokens: Start = Current, then ScanToken;
\* an error ends ScanTokens with the tokens so far
ScanTokenOp ==
    /\ pc = "scanning"
    /\ ~AtEnd(scanner)
    /\ LET Then(res) ==
               /\ scanner' = res.s
               /\ err' = res.err
               /\ pc' = IF res.err.kind /= "none" THEN "unscanned" ELSE "scanning"
       IN  Then(ScanToken([scanner EXCEPT !.start = scanner.current]))
    /\ UNCHANGED <<program, locals, scopes, resolveErr, envs, env, next, output, log, last>>

\* the end of ScanTokens: the EOF token is appended and the tokens returned
ScanTokensEnd ==
    /\ pc = "scanning"
    /\ AtEnd(scanner)
    /\ scanner' = AddEOF(scanner)
    /\ pc' = "scanned"
    /\ UNCHANGED <<program, locals, scopes, resolveErr, envs, env, next, output, log, err, last>>

ScanNext == ScanTokenOp \/ ScanTokensEnd

ScanSpec == ScanInit /\ [][ScanNext]_vars

\* ScanTokens runs its loop until the source is at its end or ScanToken
\* returns an error, and then returns: no iteration is put off for ever
ScanLiveSpec == ScanSpec /\ WF_vars(ScanNext)

-----------------------------------------------------------------------------
(* The scope stack on its own: a stack of up to MaxScopes scopes is built  *)
(* with BeginScope, EndScope, Declare and Define, then ResolveLocal is     *)
(* applied to it for one node.                                             *)

\* the identity of the node handed to ResolveLocal
ResolvedNode == <<1>>

ScopeInit ==
    /\ program = <<>>
    /\ pc = "scopes"
    /\ locals = <<>>
    /\ scopes = <<>>
    /\ resolveErr = NoErr
    /\ envs = NewEnvironment(<<>>, 0)
    /\ env = 1
    /\ next = 1
    /\ output = <<>>
    /\ log = <<>>
    /\ err = NoErr
    /\ last = NoOp
    /\ scanner = NewScanner(<<>>)

BeginScopeOp ==
    /\ last.op = "none"
    /\ Len(scopes) < MaxScopes
    /\ scopes' = BeginScope([scopes |-> scopes, locals |-> locals]).scopes
    /\ UNCHANGED <<program, pc, locals, resolveErr, envs, env, next, output, log, err, last, scanner>>

\* EndScope of a scope that BeginScope pushed
EndScopeOp ==
    /\ last.op = "none"
    /\ ~Empty(scopes)
    /\ scopes' = EndScope([scopes |-> scopes, locals |-> locals]).scopes
    /\ UNCHANGED <<program, pc, locals, resolveErr, envs, env, next, output, log, err, last, scanner>>

\* Declare of a name; the error is kept in resolveErr
DeclareOp ==
    /\ last.op = "none"
    /\ \E name \in Names :
          LET Then(d) == /\ scopes' = d.r.scopes
                         /\ resolveErr' = d.err
          IN  Then(ResolverDeclare([scopes |-> scopes, locals |-> locals], name))
    /\ UNCHANGED <<program, pc, locals, envs, env, next, output, log, err, last, scanner>>

ScopeDefineOp ==
    /\ last.op = "none"
    /\ \E name \in Names :
          scopes' = ResolverDefine([scopes |-> scopes, locals |-> locals], name).scopes
    /\ UNCHANGED <<program, pc, locals, resolveErr, envs, env, next, output, log, err, last, scanner>>

ResolveLocalOp ==
    /\ last.op = "none"
    /\ \E name \in Names :
          /\ locals' = ResolveLocal([scopes |-> scopes, locals |-> locals],
                                    ResolvedNode, name).r.locals
          /\ last' = [op |-> "resolveLocal", name |-> name]
    /\ UNCHANGED <<program, pc, scopes, resolveErr, envs, env, next, output, log, err, scanner>>

ScopeNext == BeginScopeOp \/ EndScopeOp \/ DeclareOp \/ ScopeDefineOp \/ ResolveLocalOp

ScopeSpec == ScopeInit /\ [][ScopeNext]_vars

-----------------------------------------------------------------------------
(* Properties of the environment chain (EnvSpec). *)

\* the node `distance` links above e has a table without the name
AbsentAt(h, e, distance, name) ==
    /\ Ancestor(h, e, distance) /= 0
    /\ name \notin DOMAIN h[Ancestor(h, e, distance)].values

\* the nodes from e up to the root, nearest first
ChainOf(h, e) == [d \in 1..(Depth(h, e) + 1) |-> Ancestor(h, e, d - 1)]

\* some node of the chain of e has the name
Bound(h, e, name) == \E d \in 1..Len(ChainOf(h, e)) : name \in DOMAIN h[ChainOf(h, e)[d]].values

\* the nearest node of the chain of e that has the name
Nearest(h, e, name) ==
    ChainOf(h, e)[CHOOSE d \in 1..Len(ChainOf(h, e)) :
                     /\ name \in DOMAIN h[ChainOf(h, e)[d]].values
                     /\ \A c \in 1..(d - 1) : name \notin DOMAIN h[ChainOf(h, e)[c]].values]

(* C6: GetAt and AssignAt act on the table of the node `distance` links    *)
(* above the given node only: when that table lacks the name, GetAt and    *)
(* AssignAt fail with UndefinedVariable and no table of the chain changes. *)
C6_NoFallThrough ==
    (last.op \in {"GetAt", "AssignAt"} /\ AbsentAt(last.before, last.e, last.distance, last.name))
        => (last.err.kind = "UndefinedVariable" /\ envs = last.before)

(* C7: Get yields the value of the nearest node of the chain that has the  *)
(* name and Assign writes that node's entry and nothing else; when no node *)
(* has the name both fail with UndefinedVariable and Assign leaves every   *)
(* table as it was.                                                        *)
C7_GetAssignNearest ==
    /\ (last.op = "Get" /\ Bound(last.before, last.e, last.name)) =>
          /\ last.err.kind = "none"
          /\ last.result = last.before[Nearest(last.before, last.e, last.name)].values[last.name]
          /\ envs = last.before
    /\ (last.op = "Get" /\ ~Bound(last.before, last.e, last.name)) =>
          /\ last.err.kind = "UndefinedVariable"
          /\ envs = last.before
    /\ (last.op = "Assign" /\ Bound(last.before, last.e, last.name)) =>
          /\ last.err.kind = "none"
          /\ envs = [last.before EXCEPT
                        ![Nearest(last.before, last.e, last.name)].values[last.name] = last.value]
    /\ (last.op = "Assign" /\ ~Bound(last.before, last.e, last.name)) =>
          /\ last.err.kind = "UndefinedVariable"
          /\ envs = last.before

\* an Assign from a node without the name that reaches a binding further up,
\* below a node that has the name too
C7_Witness ==
    /\ last.op = "Assign"
    /\ last.err.kind = "none"
    /\ last.name \notin DOMAIN last.before[last.e].values
    /\ Nearest(last.before, last.e, last.name) /= 1
    /\ last.name \in DOMAIN last.before[1].values
    /\ envs /= last.before


-----------------------------------------------------------------------------
(* Properties of the programs (Spec). *)

\* the run is over: the program was rejected, failed or ran to its end
Finished == pc \in {"rejected", "failed", "done"}

\* the number of x among the first j elements of calls
RECURSIVE CallsOf(_, _, _)
CallsOf(calls, x, j) ==
    IF j = 0 THEN 0
    ELSE CallsOf(calls, x, j - 1) + (IF calls[j] = x THEN 1 ELSE 0)

\* the events of the history that are calls
CallEvents == {i \in 1..Len(log) : log[i].ev = "call"}

(* C1: every call of a closure reads and writes the binding of i made by   *)
(* the activation of make() that created it: the j-th print of the counter *)
(* program shows i0 plus the number of calls made so far to that closure,  *)
(* and each call of inc runs in a node whose parent is the node of a       *)
(* make() activation, which still holds i.                                 *)
C1_ClosuresShareTheBinding ==
    \A i0 \in CounterStarts, calls \in CallSequences :
        program = CounterProgram(i0, calls) =>
            /\ pc \notin {"rejected", "failed"}
            /\ \A j \in 1..Len(output) :
                  output[j] = ToString(i0 + CallsOf(calls, calls[j], j))
            /\ (pc = "done" => Len(output) = Len(calls))
            /\ \A i \in CallEvents :
                  log[i].path = <<1, 2>> =>
                      /\ envs[log[i].env].enclosing = log[i].closure
                      /\ "i" \in DOMAIN envs[log[i].closure].values
                      /\ \E m \in CallEvents : log[m].path = <<1>> /\ log[m].env = log[i].closure

\* c is called twice and d once: c counts 1, 2 while d counts 1
C1_Witness ==
    /\ program = CounterProgram(0, <<"c", "c", "d">>)
    /\ pc = "done"
    /\ output = <<"1", "2", "1">>

C3_SelfReferenceRejected ==
    \A prelude \in Preludes, kind \in ScopeKinds, init \in SelfReadingInitializers :
        (program = SelfRefProgram(prelude, kind, init) /\ pc \notin {"source", "parsed"}) =>
            /\ pc = "rejected"
            /\ resolveErr.kind = "SelfReferencingInitializer"

\* var a = 1; fun f() { { var a = a; print a; } }
C3_Witness ==
    /\ program = SelfRefProgram(<<VarDeclStmt("a", Num(1))>>, "inner", Var("a"))
    /\ pc = "rejected"
    /\ resolveErr.kind = "SelfReferencingInitializer"
    /\ Len(scopes) = 0


(* C4: two declarations of a name in one non-global scope fail resolution  *)
(* with DuplicateDeclaration; a declaration of the name in a nested block  *)
(* passes and shadows: the read after it in the nested block has hop count *)
(* 0, the read after the block resolves to the outer binding, and the      *)
(* program prints the inner value and then the outer one.  Two global      *)
(* declarations of a name pass.                                            *)
C4_DuplicateRejectedShadowAccepted ==
    /\ (program \in DupPrograms /\ pc \notin {"source", "parsed"}) =>
          /\ pc = "rejected"
          /\ resolveErr.kind = "DuplicateDeclaration"
    /\ program \in GlobalDupPrograms => pc \notin {"rejected", "failed"}
    /\ \A c \in ShadowCases :
          (program = c.program /\ pc \notin {"source", "parsed"}) =>
              /\ pc \notin {"rejected", "failed"}
              /\ ProgramNode(program, c.inner) = Var("a")
              /\ ProgramNode(program, c.outer) = Var("a")
              /\ c.inner \in DOMAIN locals
              /\ locals[c.inner] = 0
              /\ IF c.hop < 0 THEN c.outer \notin DOMAIN locals
                 ELSE c.outer \in DOMAIN locals /\ locals[c.outer] = c.hop
              /\ (pc = "done" => output = <<"2", "1">>)

\* fun f(b) { var a = 1; print 0; fun a() {} }
C4_Witness ==
    /\ program = DupProgram("params", VarDeclStmt("a", Num(1)), <<PrintStmt(Num(0))>>,
                            FunctionStmt("a", <<>>, <<>>))
    /\ pc = "rejected"
    /\ resolveErr.kind = "DuplicateDeclaration"

(* C5: the read of a in show() has no hop count and reads the global a on  *)
(* every call: var a = g; { fun show() { print a; } show(); var a = b;     *)
(* show(); } prints g twice.                                               *)
C5_UnresolvedReadsGlobal ==
    \A g \in GlobalTexts, b \in BlockTexts :
        (program = ShowProgram(g, b) /\ pc = "done") =>
            /\ <<2, 1, 1, 1>> \notin DOMAIN locals
            /\ output = <<g, g>>

(* C8: every call runs in a new node whose parent is the node the callee   *)
(* captured and whose table binds each parameter to the argument at its    *)
(* position; the value of a return statement executed in the body, also in *)
(* a block or loop of it, is the result of that call and of no other, and  *)
(* a body that ends without one yields nil.                                *)
C8_CallFrameAndResult ==
    /\ \A i \in CallEvents :
          /\ log[i].frame.enclosing = log[i].closure
          /\ envs[log[i].env].enclosing = log[i].closure
          /\ \A j \in CallEvents : j /= i => log[j].env /= log[i].env
          /\ DOMAIN log[i].frame.values
                = {ProgramNode(program, log[i].path).params[k] : k \in 1..Len(log[i].arguments)}
          /\ Len(ProgramNode(program, log[i].path).params) = Len(log[i].arguments)
          /\ \A k \in 1..Len(log[i].arguments) :
                log[i].frame.values[ProgramNode(program, log[i].path).params[k]]
                    = log[i].arguments[k]
    /\ \A c \in CallCases :
          program = c.program =>
              /\ pc \notin {"rejected", "failed"}
              /\ env = 1
              /\ (pc = "done" => output = c.output)

\* the call of f from the block: the caller's node is not the captured one
C8_Witness ==
    /\ program = CapturedCase.program
    /\ pc = "done"
    /\ output = <<"global">>
    /\ \E i \in CallEvents : log[i].current /= log[i].closure

\* what a failed call leaves: the global node alone, nothing printed, no
\* call entered and no statement below the top level executed
NoCallEffect ==
    /\ Len(envs) = 1
    /\ output = <<>>
    /\ CallEvents = {}
    /\ \A i \in 1..Len(log) : Len(log[i].path) = 1
    /\ DOMAIN envs[1].values \subseteq {"k", "f"}

(* C9: a call with an argument count other than the arity of the callee    *)
(* fails with ArityMismatch and a call of a value that is no callable      *)
(* fails with NotCallable; no node is created, no parameter bound and no   *)
(* statement of a body executed.                                           *)
C9_FailedCallHasNoEffect ==
    /\ program \in ArityPrograms =>
          /\ pc \notin {"rejected", "done"}
          /\ NoCallEffect
          /\ (pc = "failed" => err.kind = "ArityMismatch")
    /\ program \in NotCallablePrograms =>
          /\ pc \notin {"rejected", "done"}
          /\ NoCallEffect
          /\ (pc = "failed" => err.kind = "NotCallable")

\* fun f(p1) { print "body"; } f(k = 1, k = 2): the arguments were evaluated
C9_Witness ==
    /\ program = ArityProgram("function", 1, 2)
    /\ pc = "failed"
    /\ err.kind = "ArityMismatch"
    /\ envs[1].values["k"] = NumV(2)

\* the text fmt's %v gives for a literal value
Rendering(value) ==
    CASE value.t = "nil" -> "<nil>"
      [] value.t = "bool" -> IF value.v THEN "true" ELSE "false"
      [] value.t = "num" -> ToString(value.v)
      [] value.t = "str" -> value.v

(* C10 as claimed: l + r is the sum of two numbers, the concatenation of   *)
(* two texts or of a text and the rendering of a number; for every other   *)
(* pair it fails with TypeMismatch.                                        *)
C10_PlusRejectsOtherPairs ==
    \A l \in LiteralValues, r \in LiteralValues :
        (program = PlusProgram(l, r) /\ Finished) =>
            IF isFloat(l) /\ isFloat(r) THEN pc = "done" /\ output = <<ToString(l.v + r.v)>>
            ELSE IF {l.t, r.t} \subseteq {"str", "num"}
            THEN pc = "done" /\ output = <<Rendering(l) \o Rendering(r)>>
            ELSE pc = "failed" /\ err.kind = "TypeMismatch" /\ output = <<>>

(* C10 amended: l + r is the sum of two numbers and the concatenation of   *)
(* the renderings of l and r when at least one of them is a text (with a   *)
(* number, a boolean or nil on the other side too); it fails with          *)
(* TypeMismatch when neither is a text and they are not two numbers.       *)
C10_PlusConcatenatesWithText ==
    \A l \in LiteralValues, r \in LiteralValues :
        (program = PlusProgram(l, r) /\ Finished) =>
            IF isFloat(l) /\ isFloat(r) THEN pc = "done" /\ output = <<ToString(l.v + r.v)>>
            ELSE IF isString(l) \/ isString(r)
            THEN pc = "done" /\ output = <<Rendering(l) \o Rendering(r)>>
            ELSE pc = "failed" /\ err.kind = "TypeMismatch" /\ output = <<>>

\* print "a" + true;  prints atrue
C10_Witness ==
    /\ program = PlusProgram(StrV("a"), BoolV(TRUE))
    /\ pc = "done"
    /\ output = <<"atrue">>

-----------------------------------------------------------------------------
(* Logical operators.                                                      *)

\* the left value that decides a logical operator: a truthy one decides or,
\* nil and false decide and
Decides(op, l) ==
    IF op = "or" THEN l \notin {NilV, BoolV(FALSE)} ELSE l \in {NilV, BoolV(FALSE)}

(* C11: and / or short-circuit.  The left operand is always evaluated      *)
(* first; the right operand is evaluated, with its side effects, only when *)
(* the left value does not decide (falsy under or, truthy under and); when *)
(* the left decides, the result is the left value itself and the           *)
(* assignment in the right operand does not happen.                        *)
C11_ShortCircuit ==
    \A l \in LiteralValues, op \in LogicalOps :
        /\ (program = LogicalProgram(l, op, "right") /\ Finished) =>
              /\ pc = "done"
              /\ output = IF Decides(op, l) THEN <<Rendering(l), "0">> ELSE <<"1", "1">>
              /\ envs[1].values["k"] = IF Decides(op, l) THEN NumV(0) ELSE NumV(1)
        /\ (program = LogicalProgram(l, op, "both") /\ Finished) =>
              /\ pc = "done"
              /\ output = IF Decides(op, l) THEN <<Rendering(l), Rendering(l)>>
                          ELSE <<"2", "2">>
              /\ envs[1].values["k"] = IF Decides(op, l) THEN l ELSE NumV(2)

\* var k = 0; print 0 or (k = 1); print k;  prints 0 and 0: zero decides or
C11_Witness ==
    /\ program = LogicalProgram(NumV(0), "or", "right")
    /\ pc = "done"
    /\ output = <<"0", "0">>
    /\ envs[1].values["k"] = NumV(0)

-----------------------------------------------------------------------------
(* Truthiness.                                                             *)

\* the text fmt's %v gives for the value of v in a truthiness program
Shown(value) ==
    CASE value.t = "function" -> "<fn v>"
      [] value.t = "lambda" -> "<lambda>"
      [] OTHER -> Rendering(value)

(* C12: exactly nil and false are falsy; every other value is truthy,      *)
(* zero, the empty text, functions and lambdas included; if, while, !,     *)
(* and, or all decide by this one rule: with a falsy v the program takes   *)
(* the else branch, prints true for !v, v for v and .., the right operand  *)
(* for v or .., and skips the loop; with a truthy v it takes the then      *)
(* branch, prints false, the right operand, v, and enters the loop.        *)
C12_Truthiness ==
    \A value \in TruthSubjects :
        (program = TruthProgram(value) /\ Finished) =>
            /\ pc = "done"
            /\ output = IF value \in {NilV, BoolV(FALSE)}
                        THEN <<"else", "true", Shown(value), "right">>
                        ELSE <<"then", "false", "right", Shown(value), "loop">>

\* var v = 0; ...  zero is truthy in all five constructs
C12_Witness ==
    /\ program = TruthProgram(NumV(0))
    /\ pc = "done"
    /\ output = <<"then", "false", "right", "0", "loop">>

-----------------------------------------------------------------------------
(* The loop of Interpret.                                                  *)

\* the number of statements of the given kind among the first n of kinds
Occurrences(kinds, kind, n) == Cardinality({i \in 1..n : kinds[i] = kind})

\* the lines the first n statements of kinds print: each print k shows the
\* number of assignments before it
RECURSIVE Printed(_, _)
Printed(kinds, n) ==
    IF n = 0 THEN <<>>
    ELSE Printed(kinds, n - 1)
         \o (IF kinds[n] = "print" THEN <<ToString(Occurrences(kinds, "assign", n - 1))>>
             ELSE <<>>)

\* the identities of the top-level statements executed so far, in order
TopLevelExecuted == SelectSeq(log, LAMBDA e : e.ev = "exec" /\ Len(e.path) = 1)

\* the statements after the declaration that have run to the end
Completed == IF pc = "failed" THEN next - 3 ELSE next - 2

(* C13: Interpret executes the top-level statements strictly in source     *)
(* order and stops at the first one that raises an error: the statements   *)
(* executed are 1, 2, .. in order, none is executed after a failing one,   *)
(* the run ends failed with that statement's error, and the lines printed, *)
(* the value assigned to k and the binding b made before it remain.        *)
C13_StopsAtFirstError ==
    \A kinds \in StepSequences :
        (program = StepsProgram(kinds) /\ pc \in {"running", "failed", "done"} /\ next >= 2) =>
            /\ TopLevelExecuted = [i \in 1..(next - 1) |-> [ev |-> "exec", path |-> <<i>>]]
            /\ \A i \in 1..Completed : kinds[i] \notin FailingKinds
            /\ (pc = "failed") = (next >= 3 /\ kinds[next - 2] \in FailingKinds)
            /\ pc = "failed" =>
                  err.kind = IF kinds[next - 2] = "undefined" THEN "UndefinedVariable"
                             ELSE "TypeMismatch"
            /\ pc = "done" => err.kind = "none"
            /\ output = Printed(kinds, Completed)
            /\ envs[1].values["k"] = NumV(Occurrences(kinds, "assign", Completed))
            /\ ("b" \in DOMAIN envs[1].values) = (Occurrences(kinds, "define", Completed) > 0)

\* var k = 0; k = k + 1; print u; print k;  fails at print u with k = 1
C13_Witness ==
    /\ program = StepsProgram(<<"assign", "undefined", "print">>)
    /\ pc = "failed"
    /\ err.kind = "UndefinedVariable"
    /\ next = 4
    /\ output = <<>>
    /\ envs[1].values["k"] = NumV(1)

-----------------------------------------------------------------------------
(* Control-flow signals.                                                   *)

(* C14: in every program the parser accepts a break, continue or return    *)
(* signal is consumed by its loop or call and is never the error a run     *)
(* fails with at the top level of Interpret; a break or continue in a      *)
(* function body inside a loop does not leave the function's call.         *)
C14_SignalsConsumed ==
    (ParserAccepts(program) /\ pc = "failed") => err.kind \notin Signals

\* every program resolved or run is one the parser accepts
AllParsed == pc \notin {"source", "syntaxError"} => ParserAccepts(program)

-----------------------------------------------------------------------------
(* Loops.                                                                  *)

\* the lines 0, 1, .., limit - 1
Counting(limit) == [j \in 1..limit |-> ToString(j - 1)]

(* C15: a continue in the body of a for loop with an increment still runs  *)
(* the increment before the next condition check, so the loop              *)
(*   for (var i = 0; i < limit; i = i + 1) { continue; }                   *)
(* ends and the statement after it runs, and with print i before the       *)
(* continue it prints 0 .. limit - 1; a continue in a while loop goes to   *)
(* the next condition check.                                               *)
C15_ContinueRunsIncrement ==
    \A limit \in Limits \ {0} :
        /\ (program = ContinueProgram("for", limit) /\ Finished) =>
              pc = "done" /\ output = <<"after">>
        /\ (program = ContinueProgram("print", limit) /\ Finished) =>
              pc = "done" /\ output = Counting(limit) \o <<"after">>
        /\ (program = ContinueProgram("while", limit) /\ Finished) =>
              pc = "done" /\ output = <<ToString(limit)>>

(* C16: for (var i = 0; i < limit; i = i + 1) print i; prints 0, 1, ..,    *)
(* limit - 1 in order and stops; the loop is rewritten into                *)
(* { initializer; while (condition) { body; increment } }, a missing       *)
(* condition being the literal true (the loop then runs until the return), *)
(* and i lives in the block that wraps the loop: a print i after the loop  *)
(* fails with UndefinedVariable, or shows the global i when there is one,  *)
(* and no i is left in the global node.                                    *)
C16_ForLoop ==
    \A limit \in Limits :
        /\ (program = ForProgram("count", limit) /\ Finished) =>
              /\ pc = "done"
              /\ output = Counting(limit) \o <<"after">>
              /\ "i" \notin DOMAIN envs[1].values
              /\ envs[2] = [values |-> [n \in {"i"} |-> NumV(limit)], enclosing |-> 1]
        /\ (program = ForProgram("after", limit) /\ Finished) =>
              /\ pc = "failed"
              /\ err.kind = "UndefinedVariable"
              /\ output = Counting(limit)
        /\ (program = ForProgram("shadow", limit) /\ Finished) =>
              /\ pc = "done"
              /\ output = Counting(limit) \o <<"g">>
              /\ envs[1].values["i"] = StrV("g")
        /\ (program = ForProgram("open", limit) /\ Finished) =>
              /\ pc = "done"
              /\ output = Counting(limit) \o <<ToString(limit)>>
        /\ (program = ForProgram("bare", limit) /\ Finished) =>
              /\ pc = "done"
              /\ output = Counting(limit) \o <<ToString(limit)>>

\* for (var i = 0; i < 3; i = i + 1) print i; print i;  prints 0, 1, 2 and
\* fails at the print after the loop
C16_Witness ==
    /\ program = ForProgram("after", 3)
    /\ pc = "failed"
    /\ err.kind = "UndefinedVariable"
    /\ output = <<"0", "1", "2">>

-----------------------------------------------------------------------------
(* Resolution errors.                                                      *)

\* the references resolved before the offending statement at the given
\* position: the print b statements before it and, in the expression kind,
\* the b to the left of the offending a
ResolvedBefore(kind, position) ==
    {<<1, j + 1, 1>> : j \in 1..(position - 1)}
    \cup (IF kind = "expression" THEN {<<1, position + 1, 1, 1, 1>>} ELSE {})

C20_SelfAssignmentRejected ==
    \A prelude \in Preludes, kind \in ScopeKinds, init \in SelfAssigningInitializers :
        (program = SelfRefProgram(prelude, kind, init) /\ pc \notin {"source", "parsed"}) =>
            /\ pc = "rejected"
            /\ resolveErr.kind = "SelfReferencingInitializer"

-----------------------------------------------------------------------------
(* Properties of the scanner (ScanSpec).                                   *)

\* the lexemes of the tokens returned, in order
Lexemes == [i \in DOMAIN scanner.tokens |-> scanner.tokens[i].lexeme]

(* C19: ScanTokens on a well-formed source returns no error and one token  *)
(* per lexeme, in source order, whitespace and comments skipped; for       *)
(*   var language = "lox";                                                 *)
(* the list returned has the 5 tokens var, language, =, "lox" and ;        *)
C19_OneTokenPerLexeme ==
    /\ \A c \in ScanCases :
          (scanner.source = c.source /\ pc \in {"scanned", "unscanned"}) =>
              /\ pc = "scanned"
              /\ err.kind = "none"
              /\ Lexemes = c.lexemes
    /\ (scanner.source = VarLanguage /\ pc = "scanned") => Len(scanner.tokens) = 5

\* what ScanTokens returns: the tokens of the lexemes followed by the EOF
\* token, and an error for the ill-formed sources
TokensThenEOF ==
    /\ \A c \in ScanCases :
          (scanner.source = c.source /\ pc \in {"scanned", "unscanned"}) =>
              /\ pc = "scanned"
              /\ err.kind = "none"
              /\ Lexemes = c.lexemes \o << <<>> >>
              /\ scanner.tokens[Len(scanner.tokens)].type = "EOF"
    /\ (scanner.source \in IllFormed /\ pc \in {"scanned", "unscanned"}) =>
          pc = "unscanned" /\ err.kind \in {"UnterminatedString", "UnexpectedCharacter"}

-----------------------------------------------------------------------------
\* ScanTokens has returned
Returned == pc \in {"scanned", "unscanned"}

\* Start and Current stay inside the source
InsideSource ==
    /\ 0 <= scanner.start
    /\ scanner.start <= scanner.current
    /\ scanner.current <= Len(scanner.source)

\* the list returned without an error ends with the only EOF token
OneEOF ==
    pc = "scanned" =>
        /\ err.kind = "none"
        /\ Len(scanner.tokens) >= 1
        /\ \A i \in DOMAIN scanner.tokens :
              (scanner.tokens[i].type = "EOF") = (i = Len(scanner.tokens))

\* an iteration of the loop of ScanTokens consumes at least one character and
\* starts where the one before ended
Consumes ==
    (pc = "scanning" /\ ~AtEnd(scanner)) =>
        /\ scanner'.current > scanner.current
        /\ scanner'.start = scanner.current

Defining(name) == {i \in 1..Len(scopes) : name \in DOMAIN scopes[i] /\ scopes[i][name]}

\* the innermost of a non-empty set of indexes
Innermost(indexes) == CHOOSE i \in indexes : \A j \in indexes : j <= i

(* C21: ResolveLocal searches the stack from the innermost scope outward   *)
(* and records for the node the distance of the first scope in which the   *)
(* name is defined: stack length - 1 - its Go index, at least 0 and less   *)
(* than the depth of the stack; a scope where the name is only declared    *)
(* is passed over; when no scope defines the name nothing is recorded;     *)
(* the node has at most one entry.                                         *)
C21_NearestDefiningScope ==
    last.op = "resolveLocal" =>
        IF Defining(last.name) = {} THEN locals = <<>>
        ELSE /\ DOMAIN locals = {ResolvedNode}
             /\ locals[ResolvedNode] = Len(scopes) - Innermost(Defining(last.name))
             /\ locals[ResolvedNode] \in 0..(Len(scopes) - 1)

\* x is defined in the outermost of three scopes and only declared in the
\* innermost: the distance recorded is 2
C21_Witness ==
    /\ last.op = "resolveLocal"
    /\ last.name = "x"
    /\ Len(scopes) = 3
    /\ Defining("x") = {1}
    /\ "x" \in DOMAIN scopes[3]
    /\ locals[ResolvedNode] = 2

-----------------------------------------------------------------------------
(* Blocks and the current node.                                            *)

Enters == {i \in 1..Len(log) : log[i].ev = "enter"}

\* entries less returns of ExecuteBlock among the events strictly between
\* i and j
Balance(i, j) ==
    Cardinality({k \in (i + 1)..(j - 1) : log[k].ev = "enter"})
        - Cardinality({k \in (i + 1)..(j - 1) : log[k].ev = "leave"})

\* the event is one of the activation of ExecuteBlock entered at event i
Within(i, k) == k > i /\ Balance(i, k) = 0 /\ \A m \in (i + 1)..(k - 1) : Balance(i, m + 1) >= 0

\* the returns of the activation of ExecuteBlock entered at event i
Leaves(i) == {j \in (i + 1)..Len(log) : log[j].ev = "leave" /\ Within(i, j)}

(* C22: executing a block makes a new node whose parent is the node        *)
(* current at entry, every statement of the block starts with that node    *)
(* current, and the node current at entry is current again when the block  *)
(* returns, with or without an error or signal; the current node between   *)
(* and after the top-level statements, also after a failed one, is the     *)
(* global node.                                                            *)
C22_BlockRestoresEnvironment ==
    /\ pc \in {"running", "failed", "done"} => env = 1
    /\ \A i \in Enters :
          /\ ProgramNode(program, log[i].path).k = "Block" =>
                /\ envs[log[i].env].enclosing = log[i].previous
                /\ \A k \in Enters : k < i => log[k].env /= log[i].env
                /\ log[i].env /= log[i].previous
          /\ \A k \in (i + 1)..Len(log) :
                (log[k].ev = "in" /\ Within(i, k)) =>
                    /\ log[k].env = log[i].env
                    /\ SubSeq(log[k].path, 1, Len(log[k].path) - 1) = log[i].path
          /\ Cardinality(Leaves(i)) = 1
          /\ \A j \in Leaves(i) : log[j].path = log[i].path /\ log[j].env = log[i].previous

\* a block left by a runtime error: the run has failed and the node current
\* at the entry of the block is current again
C22_Witness ==
    /\ pc = "failed"
    /\ env = 1
    /\ \E i \in Enters :
          /\ ProgramNode(program, log[i].path).k = "Block"
          /\ \E k \in (i + 1)..Len(log) : log[k].ev = "in" /\ Within(i, k)
          /\ \E j \in Leaves(i) :
                /\ log[j].kind \notin {"none", "break", "continue", "return"}
                /\ log[j].env = log[i].previous
                /\ log[i].env /= log[i].previous

-----------------------------------------------------------------------------
(* Misplaced break, continue and return.                                   *)

\* the slots of a node that hold a child
Slots(node) ==
    CASE node.k = "Block" -> DOMAIN node.statements
      [] node.k \in {"Function", "Lambda"} -> DOMAIN node.body
      [] node.k \in {"Expression", "PrintStmt", "VarDecl", "Return", "Assign", "Unary",
                     "Grouping"} -> {1}
      [] node.k \in {"Binary", "Logical", "While"} -> {1, 2}
      [] node.k = "If" -> {1, 2, 3}
      [] node.k = "Call" -> 1..(1 + Len(node.arguments))
      [] OTHER -> {}

\* the identities of the nodes of the tree below the node with identity path
RECURSIVE PathsBelow(_, _)
PathsBelow(node, path) ==
    {path} \cup UNION {PathsBelow(NodeAt(node, <<i>>), Child(path, i)) : i \in Slots(node)}

\* the node is in the body of a while loop of the text
InLoopBody(path) ==
    \E n \in 1..(Len(path) - 1) :
        ProgramNode(program, SubSeq(path, 1, n)).k = "While" /\ path[n + 1] = 2

\* the node is in the body of a function or lambda of the text
InCallableBody(path) ==
    \E n \in 1..(Len(path) - 1) :
        ProgramNode(program, SubSeq(path, 1, n)).k \in {"Function", "Lambda"}

\* the text has a break or continue outside every loop body or a return
\* outside every function and lambda body
Misplaced ==
    \E path \in PathsBelow(BlockStmt(program), <<>>) :
        \/ ProgramNode(program, path).k \in {"Break", "Continue"} /\ ~InLoopBody(path)
        \/ ProgramNode(program, path).k = "Return" /\ ~InCallableBody(path)

(* C23: a text with a break or continue that is not in the body of a loop, *)
(* or a return that is not in the body of a function or lambda, is         *)
(* rejected by the parser, after a loop or function has been left too,     *)
(* and is never resolved or run: no hop count, scope, node, line printed   *)
(* or statement executed comes of it.                                      *)
C23_MisplacedRejected ==
    (pc /= "source" /\ Misplaced) =>
        /\ pc = "syntaxError"
        /\ locals = <<>>
        /\ scopes = <<>>
        /\ resolveErr = NoErr
        /\ envs = NewEnvironment(<<>>, 0)
        /\ output = <<>>
        /\ log = <<>>
        /\ next = 1

\* while (false) { } break; print "after";  is rejected: LoopDepth is 0
\* again after the loop
C23_Witness ==
    /\ program = MisplacedCandidate("afterLoop", "break")
    /\ Misplaced
    /\ pc = "syntaxError"

-----------------------------------------------------------------------------
(* Functions declared in a block or in a function.                         *)

\* the run has passed resolution
Resolved == pc \in {"running", "failed", "done"}

\* the node at path is in the body of the function at path function with no
\* block, function or lambda between them
Directly(function, path) ==
    /\ Len(function) < Len(path)
    /\ SubSeq(path, 1, Len(function)) = function
    /\ \A n \in (Len(function) + 1)..(Len(path) - 1) :
          ProgramNode(program, SubSeq(path, 1, n)).k \notin {"Block", "Function", "Lambda"}

\* the references and assignments directly in the body of the function
ReferencesIn(function) ==
    {path \in PathsBelow(ProgramNode(program, function), function) :
        /\ Directly(function, path)
        /\ ProgramNode(program, path).k \in {"Variable", "Assign"}}

\* the functions declared in a block or in the body of a function or lambda
NestedFunctions ==
    {path \in PathsBelow(BlockStmt(program), <<>>) :
        Len(path) >= 2 /\ ProgramNode(program, path).k = "Function"}

ParamsOf(fn) == {fn.params[i] : i \in DOMAIN fn.params}

\* the names the body of the function declares itself
DeclaredIn(fn) ==
    {fn.body[i].name : i \in {j \in DOMAIN fn.body : fn.body[j].k \in {"VarDecl", "Function"}}}

(* C24: for a function declared in a block or in a function, every         *)
(* reference directly in its body to one of its parameters has hop count   *)
(* 0, and every reference directly in its body to the function's own name  *)
(* has hop count 1 (the name is declared and defined in the enclosing      *)
(* scope before the body is resolved); the recursive calls run: f(n)       *)
(* prints 0 .. n.                                                          *)
C24_FunctionNameAndParameters ==
    /\ Resolved =>
          \A function \in NestedFunctions : \A path \in ReferencesIn(function) :
              /\ ProgramNode(program, path).name \in ParamsOf(ProgramNode(program, function)) =>
                    path \in DOMAIN locals /\ locals[path] = 0
              /\ ( /\ ProgramNode(program, path).name = ProgramNode(program, function).name
                   /\ ProgramNode(program, path).name
                         \notin ParamsOf(ProgramNode(program, function))
                                    \cup DeclaredIn(ProgramNode(program, function)) ) =>
                    path \in DOMAIN locals /\ locals[path] = 1
    /\ \A n \in RecursionArguments :
          /\ (program = RecursionProgram("block", n) /\ Finished) =>
                pc = "done" /\ output = [j \in 1..(n + 1) |-> ToString(j - 1)]
          /\ (program = RecursionProgram("function", n) /\ Finished) =>
                pc = "done" /\ output = <<ToString(n)>>

\* { fun f(p) { if (0 < p) print f(p - 1); return p; } print f(2); } has
\* run: f in the body of f has hop count 1, p hop count 0
C24_Witness ==
    /\ program = RecursionProgram("block", 2)
    /\ pc = "done"
    /\ output = <<"0", "1", "2">>
    /\ <<1, 1>> \in NestedFunctions
    /\ <<1, 1, 1, 2, 1, 1>> \in ReferencesIn(<<1, 1>>)
    /\ locals[<<1, 1, 1, 2, 1, 1>>] = 1
    /\ locals[<<1, 1, 2, 1>>] = 0

-----------------------------------------------------------------------------
(* Declarations at the top level.                                          *)

\* the names declared in a block or callable of the text: by var or fun
\* below the top level, or as a parameter
DeclaredBelowTop ==
    UNION { LET node == ProgramNode(program, path)
            IN  IF node.k \in {"Function", "Lambda"}
                THEN ParamsOf(node) \cup (IF node.k = "Function" /\ Len(path) >= 2
                                          THEN {node.name} ELSE {})
                ELSE IF node.k = "VarDecl" /\ Len(path) >= 2 THEN {node.name}
                ELSE {}
            : path \in PathsBelow(BlockStmt(program), <<>>) }

(* C25: with the scope stack empty Declare and Define do nothing: the      *)
(* top-level redeclaration of a variable or function and var a = a at the  *)
(* top level pass resolution and leave no scope and no hop count (the only *)
(* hop count of fromBlock is that of the call of g, declared in the        *)
(* block); a                                                               *)
(* reference to a name declared at the top level only, from the top        *)
(* level, a block or a function, has no hop count; at run time the         *)
(* redeclaration overwrites the value of the global node, and var a = a    *)
(* with no earlier a fails at run time only.                               *)
C25_GlobalScopeUntracked ==
    /\ \A path \in DOMAIN locals : ProgramNode(program, path).name \in DeclaredBelowTop
    /\ \A form \in GlobalForms :
          (program = GlobalProgram(form) /\ pc \notin {"source", "parsed"}) =>
              /\ pc /= "rejected"
              /\ resolveErr.kind = "none"
              /\ scopes = <<>>
              /\ DOMAIN locals = IF form = "fromBlock" THEN {<<2, 4, 1, 1>>} ELSE {}
    /\ (program \in {GlobalProgram("redeclare"), GlobalProgram("selfInit")} /\ Finished) =>
          pc = "done" /\ output = <<"2">> /\ envs[1].values["a"] = NumV(2)
    /\ (program \in {GlobalProgram("funRedeclare"), GlobalProgram("varThenFun")} /\ Finished) =>
          pc = "done" /\ output = <<"2">> /\ envs[1].values["f"].path = <<2>>
    /\ (program = GlobalProgram("selfUndefined") /\ Finished) =>
          pc = "failed" /\ err.kind = "UndefinedVariable" /\ next = 2 /\ output = <<>>
    /\ (program = GlobalProgram("fromBlock") /\ Finished) =>
          pc = "done" /\ output = <<"1", "2">> /\ envs[1].values["a"] = NumV(2)

\* var a = 1; var a = 2; print a;  has printed 2
C25_Witness ==
    /\ program = GlobalProgram("redeclare")
    /\ pc = "done"
    /\ locals = <<>>
    /\ output = <<"2">>
    /\ DOMAIN envs[1].values = {"a"}

-----------------------------------------------------------------------------
(* The scope stack over a whole resolution.                                *)

\* the blocks, functions and lambdas of the text that are inside another
NestedScopes ==
    {path \in PathsBelow(BlockStmt(program), <<>>) :
        /\ ProgramNode(program, path).k \in {"Block", "Function", "Lambda"}
        /\ \E n \in 1..(Len(path) - 1) :
              ProgramNode(program, SubSeq(path, 1, n)).k \in {"Block", "Function", "Lambda"}}

(* C26: when Resolve has returned for a program, with or without an error, *)
(* the scope stack is empty as it was before: every scope begun for a      *)
(* block, function or lambda was ended, also on the error returns; and the *)
(* stack never underflows: no EndScope finds the stack empty.              *)
C26_ScopeStackBalanced ==
    /\ pc \notin {"source", "parsed"} => scopes = <<>>
    /\ resolveErr.kind /= "IndexOutOfRange"

\* a program rejected inside a scope that is itself inside another
C26_Witness ==
    /\ pc = "rejected"
    /\ resolveErr.kind \in {"DuplicateDeclaration", "SelfReferencingInitializer"}
    /\ NestedScopes /= {}
    /\ scopes = <<>>

-----------------------------------------------------------------------------
(* Scopes and nodes.                                                       *)

\* the uses of a hop count in the history
LocalUses == {i \in 1..Len(log) : log[i].ev = "local"}

\* the blocks, functions and lambdas of the text around the node
ScopesAround(path) ==
    {n \in 1..(Len(path) - 1) :
        ProgramNode(program, SubSeq(path, 1, n)).k \in {"Block", "Function", "Lambda"}}

-----------------------------------------------------------------------------
(* Parameters and the body of a function.                                  *)

(* C28: the parameters and the statements directly in the body of a        *)
(* function or lambda are declared in one scope: a parameter named twice,  *)
(* and a var or fun directly in the body with the name of a parameter,     *)
(* are rejected with DuplicateDeclaration and nothing runs; the same name  *)
(* declared in a block inside the body is accepted and shadows the         *)
(* parameter in that block only.                                           *)
C28_ParametersShareBodyScope ==
    \A kind \in CallableKinds : \A form \in ParamForms :
        (program = ParamProgram(kind, form) /\ pc \notin {"source", "parsed"}) =>
            IF form = "inBlock"
            THEN /\ pc /= "rejected"
                 /\ resolveErr.kind = "none"
                 /\ Finished => pc = "done" /\ output = <<"1", "2">>
            ELSE /\ pc = "rejected"
                 /\ resolveErr.kind = "DuplicateDeclaration"
                 /\ output = <<>>
                 /\ log = <<>>

\* fun f(a) { var a = 1; print a; } f(2);  is rejected
C28_Witness ==
    /\ program = ParamProgram("function", "inBody")
    /\ pc = "rejected"
    /\ resolveErr.kind = "DuplicateDeclaration"

-----------------------------------------------------------------------------
(* The variable of a for loop.                                             *)

\* the uses of the hop count of a reference to the name
UsesOf(name) == {i \in LocalUses : log[i].name = name}

(* C29: the variable of the initializer of a for loop has one binding for  *)
(* all iterations, in the node of the block around the loop: the           *)
(* condition, the increment and a closure made in the body all reach that  *)
(* node, in every iteration; the closure made in the first iteration       *)
(* returns 0, 1, .., limit - 1 when called in the iterations and limit     *)
(* when called after the loop.                                             *)
C29_LoopVariableShared ==
    \A limit \in Limits \ {0} :
        program = ClosureLoopProgram(limit) =>
            /\ \A i \in UsesOf("i") : \A j \in UsesOf("i") : log[i].holder = log[j].holder
            /\ \A i \in UsesOf("i") :
                  /\ envs[log[i].holder].enclosing = 1
                  /\ DOMAIN envs[log[i].holder].values = {"i"}
            /\ Finished =>
                  /\ pc = "done"
                  /\ output = Counting(limit) \o <<ToString(limit)>>
                  /\ \A i \in UsesOf("i") : envs[log[i].holder].values["i"] = NumV(limit)

\* three iterations: the closure has returned 0, 1, 2 and, after the loop, 3,
\* reading i three links above the node of its call
C29_Witness ==
    /\ program = ClosureLoopProgram(3)
    /\ pc = "done"
    /\ output = <<"0", "1", "2", "3">>
    /\ Cardinality({i \in UsesOf("i") : log[i].distance = 3}) = 4


=============================================================================
